---- MODULE Spec2Model ----
(***************************************************************************)
(* Master-key and encrypted-secret management of the account manager       *)
(* extension: the session authority of background.js (in-memory key,       *)
(* chrome.storage.session mirror, chrome.alarms expiry timer), the codec   *)
(* of CryptoUtils and SecurityManager, and the master-password scheme.     *)
(*                                                                         *)
(* Time is Date.now() in milliseconds; the epoch of the model is a local   *)
(* midnight.  A message handler is an async function: it runs              *)
(* synchronously up to an await and other handlers run in between.  The    *)
(* effect of an awaited chrome.* call takes place in the step that resumes *)
(* the handler, except where the handler reads the clock in between.       *)
(***************************************************************************)
EXTENDS Integers, Sequences, FiniteSets, TLC

(* ------------------------------ bounds --------------------------------- *)
\* milliseconds that pass at once while a handler is in flight
Latency == 1
\* callers that await each response (Spec): clock advances and messages in
\* one behaviour
MaxAdvances == 2
MaxRequests == 3
\* callers that race (SpecRace): handlers in flight at once, clock advances
\* and messages in one behaviour
MaxInFlight == 2
MaxRaceAdvances == 1
MaxRaceRequests == 3
\* the master password scheme (SpecVault): SecurityManager calls in one
\* behaviour, chrome.storage.local writes that fail, accounts of a legacy store
MaxOps == 2
MaxFaults == 1
MaxAccounts == 2
\* the codec (SpecCodec): code units of a plaintext
MaxLen == 2

(* --------------------------- program constants ------------------------- *)
SESSION_DURATION == 30 * 60 * 1000
FIXED_DELAY_MINUTES == 30
MS_PER_MINUTE == 60000
MS_PER_DAY == 24 * 60 * 60 * 1000
\* new Date(y, m, d, 23, 59, 59): milliseconds from local midnight
END_OF_DAY_OFFSET == ((23 * 60 + 59) * 60 + 59) * 1000

(* ------------------------------ values --------------------------------- *)
Null == "null"
Undefined == "undefined"
NoTime == -1
NoAlarm == -1
\* a key that is null, undefined or the empty string: the code tests a key
\* for truthiness only
NoKey == << >>
\* keyData of the messages of anonymous callers: "k1", "k2"
Keys == {<<107, 49>>, <<107, 50>>}
\* the sender of a message: a foreground context, or an anonymous caller
Anonymous == 0
Modes == {"default", "today", "browser"}
\* clocks at which a behaviour starts: 00:00:00, 23:58:59 and 23:59:59
InitTimes == {0, END_OF_DAY_OFFSET - MS_PER_MINUTE, END_OF_DAY_OFFSET}
\* time that passes between two calls of the service worker
Delays == {1000, SESSION_DURATION}

VARIABLES
  now,          \* Date.now()
  advances,     \* clock advances taken so far
  requests,     \* messages received so far
  sessionKey,   \* background.js: let sessionKey
  sessionMode,  \* background.js: let sessionMode
  mirror,       \* chrome.storage.session: sessionKey, sessionMode, sessionCreatedAt
  alarm,        \* chrome.alarms: scheduled time of SESSION_ALARM, or NoAlarm
  storeOK,      \* chrome.storage.session exists in this browser
  limits,       \* what the callers and the clock of this behaviour may do
  handlers,     \* onMessage handlers in flight, by slot
  alarmPc,      \* position of the onAlarm handler
  lastReply,    \* the sendResponse of the latest step, if it sent one
  sess,         \* history: the session installed by the latest undisturbed setSessionKey
  episode,      \* history: the setSessionKey requests of the current burst, in arrival order
  cleared,      \* history: a clearSession ran alone and no setSessionKey came since
  local,        \* chrome.storage.local: securityConfig, masterPassword, accounts, backup_v1_2_0
  install,      \* the onInstalled handler: its reason, position and the data it read
  ctx,          \* the SecurityManager call of each foreground context: position and locals
  faults,       \* chrome.storage.local writes that have failed so far
  ops,          \* SecurityManager calls made so far
  outcome,      \* the result that the latest foreground step returned, if it returned
  owner,        \* history: the passphrase whose initialisation wrote securityConfig
  codec         \* the codec call under study: arguments and results

sessionVars == <<now, advances, requests, sessionKey, sessionMode, mirror, alarm, storeOK,
                 limits, handlers, alarmPc, lastReply, sess, episode, cleared>>
vaultVars == <<local, install, ctx, faults, ops, outcome, owner>>
vars == <<sessionVars, vaultVars, codec>>

EmptyMirror == [sessionKey |-> NoKey, sessionMode |-> Null, sessionCreatedAt |-> NoTime]

IdleHandler ==
  [action |-> "none", pc |-> "idle", caller |-> Anonymous, keyData |-> NoKey,
   t0 |-> NoTime, delay |-> 0, data |-> EmptyMirror, alone |-> FALSE]

NoReply == [action |-> "none", success |-> FALSE, keyData |-> NoKey]
NoSess ==
  [key |-> NoKey, mode |-> Null, t |-> NoTime, createdAt |-> NoTime,
   restarted |-> FALSE, alarmFired |-> FALSE, gets |-> 0]

Slots == 1..MaxInFlight
Usable == 1..limits.inFlight
Busy == {s \in Slots : handlers[s].action # "none"}
Quiescent == Busy = {} /\ alarmPc = "idle"
FreeSlot == CHOOSE s \in Slots : handlers[s].action = "none" /\
                                 \A r \in Slots : handlers[r].action = "none" => s <= r
CanReceive == \E s \in Usable : handlers[s].action = "none"

(* ------------------------------ helpers -------------------------------- *)
Max(a, b) == IF a >= b THEN a ELSE b

\* Math.ceil(x / m) for an integer x and m > 0
CeilDiv(x, m) == IF x >= 0 THEN (x + m - 1) \div m ELSE -((-x) \div m)

\* new Date(t).toDateString(): the local calendar day of t
DateString(t) == t \div MS_PER_DAY

\* variant of request.mode || 'default' that ignores the mode of the request
ModeAlwaysDefault(m) == "default"

\* request.mode || 'default', data.sessionMode || 'default'
ModeOrDefault(m) == IF m \in {Null, Undefined} THEN "default" ELSE m

\* data.sessionCreatedAt || 0
CreatedAtOrZero(t) == IF t = NoTime THEN 0 ELSE t

\* setSessionKey, 'today': minutes from t to 23:59:59 of the day of t
MinutesLeft(t) ==
  LET endOfDay == DateString(t) * MS_PER_DAY + END_OF_DAY_OFFSET
  IN  Max(1, CeilDiv(endOfDay - t, MS_PER_MINUTE))

\* variant of the recomputed expiry that applies the 30 minutes to every mode
ExpiredIgnoringMode(mode, createdAt, t) == (t - createdAt) > SESSION_DURATION

\* getSessionKey: the recomputed expiry of a mirrored session
Expired(mode, createdAt, t) ==
  IF mode = "default" /\ (t - createdAt) > SESSION_DURATION THEN TRUE
  ELSE IF mode = "today" THEN DateString(createdAt) # DateString(t)
  ELSE FALSE

AlarmDue == alarm # NoAlarm /\ now >= alarm

\* history: every handler in flight has been overlapped by another one
Disturbed(hs) == [s \in Slots |-> IF hs[s].action = "none" THEN hs[s]
                                  ELSE [hs[s] EXCEPT !.alone = FALSE]]

\* history: the alarm handler has overlapped the setSessionKey in flight
DisturbedSets(hs) == [s \in Slots |-> IF hs[s].action # "set" THEN hs[s]
                                      ELSE [hs[s] EXCEPT !.alone = FALSE]]

\* history: a getSessionKey has been answered since the restart
Answered(se) == IF se.restarted /\ se.gets < 2 THEN [se EXCEPT !.gets = @ + 1] ELSE se

Reply(action, ok, key) == [action |-> action, success |-> ok, keyData |-> key]

(***************************************************************************)
(* The codec.  A JavaScript string is the sequence of its UTF-16 code      *)
(* units, a byte array the sequence of its bytes.  A function that can     *)
(* throw returns [ok, val].  PBKDF2 and AES-GCM are idealised: the derived *)
(* key determines the password, the salt and the iteration count, and the  *)
(* tag determines the key, the nonce and the ciphertext.                   *)
(***************************************************************************)
Thrown == [ok |-> FALSE, val |-> << >>]
Returned(v) == [ok |-> TRUE, val |-> v]

SALT_LENGTH == 16
IV_LENGTH == 12
TAG_LENGTH == 16
KEY_LENGTH == 32
CRYPTO_UTILS_ITERATIONS == 100000
PBKDF2_ITERATIONS == 120000
MIN_DECODED_LENGTH == 28

\* a value passed where a password or a key is expected: a string or a
\* CryptoKey object holding raw key bytes
JsString(str) == [kind |-> "string", val |-> str]
JsKey(raw) == [kind |-> "CryptoKey", val |-> raw]

\* "[object CryptoKey]": what ToString gives for a CryptoKey
ObjectCryptoKey ==
  <<91, 111, 98, 106, 101, 99, 116, 32, 67, 114, 121, 112, 116, 111, 75, 101, 121, 93>>

\* the conversion of an argument to a USVString parameter
ToUSVString(v) == IF v.kind = "string" THEN v.val ELSE ObjectCryptoKey

IsHighSurrogate(c) == c >= 55296 /\ c <= 56319
IsLowSurrogate(c) == c >= 56320 /\ c <= 57343

\* TextEncoder.encode: UTF-8, an unpaired surrogate becomes U+FFFD
RECURSIVE TextEncode(_)
TextEncode(str) ==
  IF str = << >> THEN << >>
  ELSE LET c == Head(str)
       IN  IF c < 128 THEN <<c>> \o TextEncode(Tail(str))
           ELSE IF c < 2048
           THEN <<192 + (c \div 64), 128 + (c % 64)>> \o TextEncode(Tail(str))
           ELSE IF IsHighSurrogate(c) /\ Len(str) >= 2 /\ IsLowSurrogate(str[2])
           THEN LET cp == 65536 + (c - 55296) * 1024 + (str[2] - 56320)
                IN  <<240 + (cp \div 262144), 128 + ((cp \div 4096) % 64),
                      128 + ((cp \div 64) % 64), 128 + (cp % 64)>>
                    \o TextEncode(Tail(Tail(str)))
           ELSE IF IsHighSurrogate(c) \/ IsLowSurrogate(c)
           THEN <<239, 191, 189>> \o TextEncode(Tail(str))
           ELSE <<224 + (c \div 4096), 128 + ((c \div 64) % 64), 128 + (c % 64)>>
                \o TextEncode(Tail(str))

IsContinuation(b) == b >= 128 /\ b < 192

\* TextDecoder.decode: UTF-8, a byte that starts no valid sequence becomes
\* U+FFFD
RECURSIVE TextDecode(_)
TextDecode(bytes) ==
  IF bytes = << >> THEN << >>
  ELSE LET b == Head(bytes)
           n == Len(bytes)
       IN  IF b < 128 THEN <<b>> \o TextDecode(Tail(bytes))
           ELSE IF b >= 194 /\ b < 224 /\ n >= 2 /\ IsContinuation(bytes[2])
           THEN <<(b - 192) * 64 + (bytes[2] - 128)>> \o TextDecode(SubSeq(bytes, 3, n))
           ELSE IF b >= 224 /\ b < 240 /\ n >= 3 /\ IsContinuation(bytes[2])
                   /\ IsContinuation(bytes[3])
                   /\ (b - 224) * 4096 + (bytes[2] - 128) * 64 >= 2048
                   /\ ~(IsHighSurrogate((b - 224) * 4096 + (bytes[2] - 128) * 64)
                        \/ IsLowSurrogate((b - 224) * 4096 + (bytes[2] - 128) * 64))
           THEN <<(b - 224) * 4096 + (bytes[2] - 128) * 64 + (bytes[3] - 128)>>
                \o TextDecode(SubSeq(bytes, 4, n))
           ELSE IF b >= 240 /\ b < 245 /\ n >= 4 /\ IsContinuation(bytes[2])
                   /\ IsContinuation(bytes[3]) /\ IsContinuation(bytes[4])
                   /\ (b - 240) * 262144 + (bytes[2] - 128) * 4096 >= 65536
                   /\ (b - 240) * 262144 + (bytes[2] - 128) * 4096 < 1114112
           THEN LET cp == (b - 240) * 262144 + (bytes[2] - 128) * 4096
                          + (bytes[3] - 128) * 64 + (bytes[4] - 128)
                IN  <<55296 + ((cp - 65536) \div 1024), 56320 + ((cp - 65536) % 1024)>>
                    \o TextDecode(SubSeq(bytes, 5, n))
           ELSE <<65533>> \o TextDecode(Tail(bytes))

\* the base64 alphabet: the code unit of digit d, and the digit of a code
\* unit (-1 when it is none)
Base64Char(d) ==
  IF d < 26 THEN 65 + d
  ELSE IF d < 52 THEN 97 + (d - 26)
  ELSE IF d < 62 THEN 48 + (d - 52)
  ELSE IF d = 62 THEN 43 ELSE 47

Base64Digit(c) ==
  IF c >= 65 /\ c <= 90 THEN c - 65
  ELSE IF c >= 97 /\ c <= 122 THEN c - 97 + 26
  ELSE IF c >= 48 /\ c <= 57 THEN c - 48 + 52
  ELSE IF c = 43 THEN 62
  ELSE IF c = 47 THEN 63 ELSE -1

PadChar == 61

\* btoa of the binary string of the bytes: four digits for every three
\* bytes, the last group padded
Btoa(bytes) ==
  LET n == Len(bytes)
      byte(i) == IF i <= n THEN bytes[i] ELSE 0
      char(k) ==
        LET g == 3 * ((k - 1) \div 4)
            r == (k - 1) % 4
        IN  IF r = 0 THEN Base64Char(byte(g + 1) \div 4)
            ELSE IF r = 1
            THEN Base64Char((byte(g + 1) % 4) * 16 + byte(g + 2) \div 16)
            ELSE IF r = 2
            THEN IF g + 2 > n THEN PadChar
                 ELSE Base64Char((byte(g + 2) % 16) * 4 + byte(g + 3) \div 64)
            ELSE IF g + 3 > n THEN PadChar ELSE Base64Char(byte(g + 3) % 64)
  IN  [k \in 1..(4 * ((n + 2) \div 3)) |-> char(k)]

IsAsciiWhitespace(c) == c \in {9, 10, 12, 13, 32}

\* the bytes of a sequence of base64 digits: three for every four digits
DecodeDigits(str) ==
  LET n == Len(str)
      d(i) == Base64Digit(str[i])
      byte(j) ==
        LET g == 4 * ((j - 1) \div 3)
            r == (j - 1) % 3
        IN  IF r = 0 THEN d(g + 1) * 4 + d(g + 2) \div 16
            ELSE IF r = 1 THEN (d(g + 2) % 16) * 16 + d(g + 3) \div 4
            ELSE (d(g + 3) % 4) * 64 + d(g + 4)
  IN  [j \in 1..((n * 3) \div 4) |-> byte(j)]

\* atob: forgiving-base64 decode; it throws on a code unit outside the
\* alphabet and on a length of 1 modulo 4
Atob(str) ==
  LET stripped == SelectSeq(str, LAMBDA c : ~IsAsciiWhitespace(c))
      n == Len(stripped)
      unpadded ==
        IF n % 4 = 0 /\ n >= 2 /\ stripped[n] = PadChar /\ stripped[n - 1] = PadChar
        THEN SubSeq(stripped, 1, n - 2)
        ELSE IF n % 4 = 0 /\ n >= 1 /\ stripped[n] = PadChar
        THEN SubSeq(stripped, 1, n - 1)
        ELSE stripped
  IN  IF Len(unpadded) % 4 = 1 THEN Thrown
      ELSE IF \E i \in 1..Len(unpadded) : Base64Digit(unpadded[i]) = -1 THEN Thrown
      ELSE Returned(DecodeDigits(unpadded))

\* variant of arrayBufferToBase64 that emits base64 without padding
Base64Unpadded(bytes) == SelectSeq(Btoa(bytes), LAMBDA c : c # PadChar)

\* arrayBufferToBase64, base64ToArrayBuffer (both classes)
arrayBufferToBase64(bytes) == Btoa(bytes)
base64ToArrayBuffer(base64) == Atob(base64)

\* /^[A-Za-z0-9+\/]+={0,2}$/
MatchesBase64Regex(str) ==
  \E pad \in 0..2 :
    /\ Len(str) - pad >= 1
    /\ \A i \in 1..(Len(str) - pad) : Base64Digit(str[i]) # -1
    /\ \A i \in (Len(str) - pad + 1)..Len(str) : str[i] = PadChar

\* CryptoUtils.isBase64
isBase64(str) ==
  IF str = << >> THEN FALSE
  ELSE IF Len(str) % 4 # 0 THEN FALSE
  ELSE IF ~MatchesBase64Regex(str) THEN FALSE
  ELSE LET decoded == Atob(str)
       IN  IF ~decoded.ok THEN FALSE
           ELSE IF Len(decoded.val) < MIN_DECODED_LENGTH THEN FALSE
           ELSE TRUE

At(seq, i) == seq[((i - 1) % Len(seq)) + 1]

RECURSIVE Sum(_)
Sum(seq) == IF seq = << >> THEN 0 ELSE Head(seq) + Sum(Tail(seq))

Pad(seq, n) == [i \in 1..n |-> IF i <= Len(seq) THEN seq[i] ELSE 0]

\* crypto.subtle.importKey + deriveKey (PBKDF2, SHA-256, AES-GCM 256): the
\* raw key, idealised
Pbkdf2(passwordBytes, salt, iterations) ==
  Pad(<<(iterations \div 1000) % 256, Sum(salt) % 256, At(salt \o <<0>>, 1),
        Len(passwordBytes)>>
      \o passwordBytes, KEY_LENGTH)

\* the authentication tag of AES-GCM, idealised
GcmTag(raw, iv, ct) ==
  LET total == Sum(ct) + Len(ct)
  IN  [j \in 1..TAG_LENGTH |->
         (raw[j] + 7 * raw[j + TAG_LENGTH] + At(iv, j) + total * j) % 256]

\* crypto.subtle.encrypt({name: 'AES-GCM', iv}, key, data)
AesGcmEncrypt(raw, iv, data) ==
  LET ct == [i \in 1..Len(data) |-> (data[i] + At(raw, i) + At(iv, i)) % 256]
  IN  ct \o GcmTag(raw, iv, ct)

\* crypto.subtle.decrypt({name: 'AES-GCM', iv}, key, data): it throws when
\* the tag does not authenticate the data
AesGcmDecrypt(raw, iv, encrypted) ==
  IF Len(encrypted) < TAG_LENGTH \/ Len(iv) = 0 THEN Thrown
  ELSE LET n == Len(encrypted) - TAG_LENGTH
           ct == SubSeq(encrypted, 1, n)
           tag == SubSeq(encrypted, n + 1, Len(encrypted))
       IN  IF tag # GcmTag(raw, iv, ct) THEN Thrown
           ELSE Returned([i \in 1..n |-> (ct[i] - At(raw, i) - At(iv, i)) % 256])

\* CryptoUtils.deriveKey(password, salt)
CryptoUtilsDeriveKey(password, salt) ==
  Pbkdf2(TextEncode(ToUSVString(password)), salt, CRYPTO_UTILS_ITERATIONS)

\* CryptoUtils.encrypt(plaintext, password) with the salt and the IV that
\* generateSalt and generateIV return
CryptoUtilsEncrypt(plaintext, password, salt, iv) ==
  LET data == TextEncode(plaintext)
      key == CryptoUtilsDeriveKey(password, salt)
      encrypted == AesGcmEncrypt(key, iv, data)
  IN  Returned(arrayBufferToBase64(salt \o iv \o encrypted))

\* variant of slice whose end index is inclusive
SliceInclusive(bytes, from, to) ==
  SubSeq(bytes, from + 1, IF to + 1 <= Len(bytes) THEN to + 1 ELSE Len(bytes))

\* Uint8Array.slice(from, to)
Slice(bytes, from, to) ==
  SubSeq(bytes, from + 1, IF to <= Len(bytes) THEN to ELSE Len(bytes))

\* CryptoUtils.decrypt(ciphertext, password): every failure is rethrown
CryptoUtilsDecrypt(ciphertext, password) ==
  LET data == base64ToArrayBuffer(ciphertext)
  IN  IF ~data.ok THEN Thrown
      ELSE LET salt == Slice(data.val, 0, 16)
               iv == Slice(data.val, 16, 28)
               encrypted == Slice(data.val, 28, Len(data.val))
           IN  IF salt = << >> THEN Thrown
               ELSE LET key == CryptoUtilsDeriveKey(password, salt)
                        decrypted == AesGcmDecrypt(key, iv, encrypted)
                    IN  IF ~decrypted.ok THEN Thrown
                        ELSE Returned(TextDecode(decrypted.val))

\* CryptoUtils.encryptPassword(password, key)
encryptPassword(password, key, salt, iv) ==
  IF key = JsKey(<< >>) THEN Thrown
  ELSE CryptoUtilsEncrypt(password, key, salt, iv)

\* CryptoUtils.decryptPassword(encryptedPassword, key)
decryptPassword(encryptedPassword, key) ==
  IF ~isBase64(encryptedPassword) THEN Thrown
  ELSE IF key = JsKey(<< >>) THEN Thrown
  ELSE CryptoUtilsDecrypt(encryptedPassword, key)

\* variant of deriveKey that folds the password to lower case
DeriveKeyIgnoringCase(password, salt) ==
  Pbkdf2(TextEncode([i \in 1..Len(password) |->
                       IF password[i] \in 65..90 THEN password[i] + 32
                       ELSE password[i]]),
         salt, PBKDF2_ITERATIONS)

\* SecurityManager.deriveKey(password, salt)
SecurityManagerDeriveKey(password, salt) ==
  Pbkdf2(TextEncode(password), salt, PBKDF2_ITERATIONS)

\* SecurityManager.encrypt(plaintext, key) with the IV that getRandomValues
\* returns; crypto.subtle.encrypt throws when key is no CryptoKey
SecurityManagerEncrypt(plaintext, key, iv) ==
  IF key.kind # "CryptoKey" THEN Thrown
  ELSE LET data == TextEncode(plaintext)
           encrypted == AesGcmEncrypt(key.val, iv, data)
       IN  Returned(arrayBufferToBase64(iv \o encrypted))

\* SecurityManager.decrypt(ciphertext, key)
SecurityManagerDecrypt(ciphertext, key) ==
  LET data == base64ToArrayBuffer(ciphertext)
  IN  IF ~data.ok \/ key.kind # "CryptoKey" THEN Thrown
      ELSE LET iv == Slice(data.val, 0, 12)
               encrypted == Slice(data.val, 12, Len(data.val))
               decrypted == AesGcmDecrypt(key.val, iv, encrypted)
           IN  IF ~decrypted.ok THEN Thrown
               ELSE Returned(TextDecode(decrypted.val))

(***************************************************************************)
(* The master password scheme: SecurityManager over chrome.storage.local.  *)
(***************************************************************************)
\* 'account-manager-security-v2'
VERIFICATION_TEXT ==
  <<97, 99, 99, 111, 117, 110, 116, 45, 109, 97, 110, 97, 103, 101, 114, 45,
    115, 101, 99, 117, 114, 105, 116, 121, 45, 118, 50>>
PASSWORD_MIN_LENGTH == 8

\* passphrases that a user enters: "Abcd1234", "abcd1234", "Abcd123" followed
\* by an unpaired high surrogate, "Abcd123" followed by U+FFFD
Passphrases ==
  { <<65, 98, 99, 100, 49, 50, 51, 52>>,
    <<97, 98, 99, 100, 49, 50, 51, 52>>,
    <<65, 98, 99, 100, 49, 50, 51, 55357>>,
    <<65, 98, 99, 100, 49, 50, 51, 65533>> }

\* passphrases that the strength policy refuses: "", "Abc1", "ABCD1234",
\* "Abcdefgh" (and "abcd1234" among the Passphrases)
WeakPassphrases ==
  { << >>,
    <<65, 98, 99, 49>>,
    <<65, 66, 67, 68, 49, 50, 51, 52>>,
    <<65, 98, 99, 100, 101, 102, 103, 104>> }

\* the master passwords of version 1 stores, "old1" and "Abcd1234": what a
\* user enters as the old password is one of them, the wrong one for the
\* store of the other
LegacyPassword == <<111, 108, 100, 49>>
LegacyPasswords == {LegacyPassword, <<65, 98, 99, 100, 49, 50, 51, 52>>}

\* values of crypto.getRandomValues: salts of 16 bytes, IVs of 12 bytes
Salts == {Pad(<<17>>, SALT_LENGTH), Pad(<<34, 1>>, SALT_LENGTH)}
Ivs == {Pad(<<5>>, IV_LENGTH), Pad(<<6, 2>>, IV_LENGTH)}
LegacySalt == Pad(<<51>>, SALT_LENGTH)
LegacyIv == Pad(<<7>>, IV_LENGTH)

Contexts == 1..MaxInFlight

NoConfig ==
  [version |-> "", salt |-> << >>, iterations |-> 0, verificationData |-> << >>,
   createdAt |-> NoTime]
NoBackup ==
  [timestamp |-> NoTime, version |-> "", accounts |-> << >>, masterPassword |-> << >>]
EmptyLocal ==
  [securityConfig |-> NoConfig, masterPassword |-> << >>, accounts |-> << >>,
   backup_v1_2_0 |-> NoBackup]

Account(id, password) == [id |-> id, password |-> password, decryptedPassword |-> << >>]

\* the accounts of a version 1 store: a secret ("pw" and the id) encrypted
\* under the legacy master password, a password stored as plaintext
\* ("hunter2"), an account without a password
LegacyAccount(masterPassword, i) ==
  IF i % 3 = 1
  THEN Account(i, CryptoUtilsEncrypt(<<112, 119, 48 + i>>, JsString(masterPassword),
                                     LegacySalt, LegacyIv).val)
  ELSE IF i % 3 = 2 THEN Account(i, <<104, 117, 110, 116, 101, 114, 50>>)
  ELSE Account(i, << >>)

LegacyLocal(masterPassword, n) ==
  [EmptyLocal EXCEPT !.masterPassword = masterPassword,
                     !.accounts = [i \in 1..n |-> LegacyAccount(masterPassword, i)]]

IdleCtx ==
  [op |-> "none", pc |-> "idle", password |-> << >>, oldPassword |-> << >>,
   mode |-> "default", key |-> << >>, config |-> NoConfig, masterPassword |-> << >>,
   accounts |-> << >>, read |-> << >>, owner |-> << >>]

NoOutcome ==
  [op |-> "none", success |-> FALSE, message |-> "", password |-> << >>,
   oldPassword |-> << >>, mode |-> "default", owner |-> << >>, masterPassword |-> << >>,
   read |-> << >>]

\* what a call returns: { success, message }, with the arguments and what the
\* call had read
Result(c, success, message) ==
  [op |-> c.op, success |-> success, message |-> message, password |-> c.password,
   oldPassword |-> c.oldPassword, mode |-> c.mode, owner |-> c.owner,
   masterPassword |-> c.masterPassword, read |-> c.read]

\* variant of validatePasswordStrength without the check for a digit
ValidateWithoutNumber(password) ==
  IF password = << >> THEN [valid |-> FALSE, message |-> "empty"]
  ELSE IF Len(password) < PASSWORD_MIN_LENGTH THEN [valid |-> FALSE, message |-> "short"]
  ELSE IF ~\E i \in 1..Len(password) : password[i] >= 65 /\ password[i] <= 90
  THEN [valid |-> FALSE, message |-> "upper"]
  ELSE IF ~\E i \in 1..Len(password) : password[i] >= 97 /\ password[i] <= 122
  THEN [valid |-> FALSE, message |-> "lower"]
  ELSE [valid |-> TRUE, message |-> "ok"]

\* SecurityManager.validatePasswordStrength
validatePasswordStrength(password) ==
  IF password = << >> THEN [valid |-> FALSE, message |-> "empty"]
  ELSE IF Len(password) < PASSWORD_MIN_LENGTH THEN [valid |-> FALSE, message |-> "short"]
  ELSE IF ~\E i \in 1..Len(password) : password[i] >= 65 /\ password[i] <= 90
  THEN [valid |-> FALSE, message |-> "upper"]
  ELSE IF ~\E i \in 1..Len(password) : password[i] >= 97 /\ password[i] <= 122
  THEN [valid |-> FALSE, message |-> "lower"]
  ELSE IF ~\E i \in 1..Len(password) : password[i] >= 48 /\ password[i] <= 57
  THEN [valid |-> FALSE, message |-> "number"]
  ELSE [valid |-> TRUE, message |-> "ok"]

\* initializeMasterPassword 203-219: the key and the securityConfig of a
\* passphrase, before createdAt is stamped
NewSecurityConfig(masterPassword, salt, iv) ==
  LET key == SecurityManagerDeriveKey(masterPassword, salt)
  IN  [key |-> key,
       config |-> [version |-> "2.0",
                   salt |-> arrayBufferToBase64(salt),
                   iterations |-> PBKDF2_ITERATIONS,
                   verificationData |->
                     SecurityManagerEncrypt(VERIFICATION_TEXT, JsKey(key), iv).val,
                   createdAt |-> NoTime]]

\* NewSecurityConfig of every passphrase, salt and IV of the model, computed
\* once
SecurityConfigs ==
  [p \in Passphrases \cup WeakPassphrases, salt \in Salts, iv \in Ivs |->
     NewSecurityConfig(p, salt, iv)]

\* the IV that getRandomValues returns for the i-th account of a migration
\* that drew iv
AccountIv(iv, i) == [iv EXCEPT ![IV_LENGTH] = i]

\* migrateFromOldVersion 326-353: an account with its decrypted password, or
\* with its stored password when there is none or the decryption throws
Decrypted(account, oldMasterPassword) ==
  IF account.password # << >>
  THEN LET decrypted == CryptoUtilsDecrypt(account.password, JsString(oldMasterPassword))
       IN  [account EXCEPT !.decryptedPassword =
              IF decrypted.ok THEN decrypted.val ELSE account.password]
  ELSE [account EXCEPT !.decryptedPassword = account.password]

\* migrateFromOldVersion 367-375: an account re-encrypted under the new key
ReEncrypted(account, newKey, iv) ==
  [account EXCEPT
     !.password = SecurityManagerEncrypt(account.decryptedPassword, JsKey(newKey), iv).val,
     !.decryptedPassword = << >>]

\* the outcomes of the next chrome.storage.local write
Outcomes == IF faults < MaxFaults THEN BOOLEAN ELSE {TRUE}

\* the onMessage handler of the request of context c has sent its response
Responded(c) == \A s \in Slots : handlers[s].action = "none" \/ handlers[s].caller # c

CanCall(c) ==
  /\ c \in Usable
  /\ install.pc = "done"
  /\ ctx[c].op = "none"
  /\ ops < limits.ops

(***************************************************************************)
(* The codec under study                                                   *)
(***************************************************************************)
\* code units of a plaintext: "a", U+00E9, U+20AC and the surrogates of
\* U+1F600
CodeUnits == {97, 233, 8364, 55357, 56832}
Plaintexts == UNION {[1..n -> CodeUnits] : n \in 0..MaxLen}

\* the keys that a caller passes: two session keys as CryptoKey objects and
\* the legacy master passwords as strings
CodecKeys ==
  {JsKey(SecurityManagerDeriveKey(p, salt)) :
     p \in {<<65, 98, 99, 100, 49, 50, 51, 52>>}, salt \in Salts}
  \cup {JsString(p) : p \in LegacyPasswords}

NoTrial ==
  [stage |-> "none", layout |-> "none", s |-> << >>, key |-> JsString(<< >>),
   other |-> JsString(<< >>), salt |-> << >>, iv |-> << >>, blob |-> << >>,
   plain |-> Thrown, plainOther |-> Thrown]

\* every code unit of the string belongs to a well-formed UTF-16 sequence
WellFormed(str) ==
  \A i \in 1..Len(str) :
    /\ IsHighSurrogate(str[i]) => (i < Len(str) /\ IsLowSurrogate(str[i + 1]))
    /\ IsLowSurrogate(str[i]) => (i > 1 /\ IsHighSurrogate(str[i - 1]))

(* ------------------------------- Init ---------------------------------- *)
\* callers await each response before the next message; the clock advances
\* by the Latency at any time and, between handlers, by the Delays and to
\* the alarm
SeqLimits ==
  [inFlight |-> 1, requests |-> MaxRequests, advances |-> MaxAdvances,
   delays |-> Delays, latencies |-> {Latency}, ops |-> 0]

\* callers send messages while others are in flight; the clock advances
\* between handlers, to the alarm
RaceLimits ==
  [inFlight |-> MaxInFlight, requests |-> MaxRaceRequests,
   advances |-> MaxRaceAdvances, delays |-> {}, latencies |-> {}, ops |-> 0]

InitWith(l, times, stores) ==
  /\ limits = l
  /\ now \in times
  /\ storeOK \in stores
  /\ advances = 0
  /\ requests = 0
  /\ sessionKey = NoKey
  /\ sessionMode = "default"
  /\ mirror = EmptyMirror
  /\ alarm = NoAlarm
  /\ handlers = [s \in Slots |-> IdleHandler]
  /\ alarmPc = "idle"
  /\ lastReply = NoReply
  /\ sess = NoSess
  /\ episode = << >>
  /\ cleared = FALSE

\* no foreground context calls the SecurityManager
InitForeground(stores) ==
  /\ local \in stores
  /\ install = [reason |-> "install", pc |-> "done", data |-> EmptyLocal]
  /\ ctx = [c \in Contexts |-> IdleCtx]
  /\ faults = 0
  /\ ops = 0
  /\ outcome = NoOutcome
  /\ owner = << >>

Init ==
  /\ InitWith(SeqLimits, InitTimes, BOOLEAN)
  /\ InitForeground({EmptyLocal})
  /\ codec = NoTrial

InitRace ==
  /\ InitWith(RaceLimits, {0}, BOOLEAN)
  /\ InitForeground({EmptyLocal})
  /\ codec = NoTrial

(* ------------------------------- clock --------------------------------- *)
\* the clocks that the next advance can reach: handlers in flight take
\* milliseconds, the time between them is arbitrary
NextTimes ==
  IF Quiescent
  THEN {now + d : d \in limits.delays \cup limits.latencies} \cup ({alarm} \ {NoAlarm})
  ELSE {now + d : d \in limits.latencies}

\* the clock advances; a pending alarm is delivered at its scheduled time,
\* so the clock advances to that time at most
Advance ==
  /\ advances < limits.advances
  /\ \E t \in NextTimes :
       /\ t > now
       /\ alarm # NoAlarm => t <= alarm
       /\ now' = t
  /\ advances' = advances + 1
  /\ lastReply' = NoReply
  /\ UNCHANGED <<requests, sessionKey, sessionMode, mirror, alarm, storeOK,
                 limits, handlers, alarmPc, sess, episode, cleared>>
  /\ UNCHANGED <<vaultVars, codec>>

\* a message is dispatched to the onMessage listener: a due alarm is
\* dispatched first
Receive ==
  /\ requests < limits.requests
  /\ CanReceive
  /\ ~AlarmDue
  /\ requests' = requests + 1

(* --------------------------- setSessionKey ----------------------------- *)
\* background.js 198-203: the synchronous part up to await alarms.clear, for
\* the message of caller c
SetSessionKeyReceive(k, m, c) ==
  /\ Receive
  /\ sessionKey' = k
  /\ sessionMode' = ModeOrDefault(m)
  /\ handlers' = [Disturbed(handlers) EXCEPT ![FreeSlot] =
       [IdleHandler EXCEPT !.action = "set", !.pc = "set_clearAlarm", !.caller = c,
                           !.keyData = k, !.t0 = now, !.alone = Quiescent]]
  /\ lastReply' = NoReply
  /\ sess' = NoSess
  /\ episode' = IF Quiescent THEN << [key |-> k, mode |-> ModeOrDefault(m)] >>
                ELSE IF episode # << >>
                     THEN Append(episode, [key |-> k, mode |-> ModeOrDefault(m)])
                     ELSE << >>
  /\ cleared' = FALSE
  /\ UNCHANGED <<now, advances, mirror, alarm, storeOK, limits, alarmPc>>

\* a setSessionKey message of an anonymous caller
SetSessionKeyStart(k, m) ==
  /\ SetSessionKeyReceive(k, m, Anonymous)
  /\ UNCHANGED <<vaultVars, codec>>

\* background.js 218-229: try { await storage.session.set(...) } catch {}: the
\* call is made with Date.now() of this step and the global sessionMode;
\* without the store it throws, the catch ignores it and the response is sent
SetStamp(s) ==
  IF storeOK
  THEN /\ handlers' = [handlers EXCEPT ![s].pc = "set_store",
                                       ![s].data = [sessionKey |-> handlers[s].keyData,
                                                    sessionMode |-> sessionMode,
                                                    sessionCreatedAt |-> now]]
       /\ lastReply' = NoReply
  ELSE /\ handlers' = [handlers EXCEPT ![s] = IdleHandler]
       /\ lastReply' = Reply("set", TRUE, NoKey)

\* variant of setSessionKey without chrome.alarms.clear
SetSessionKeyKeepAlarm(s) ==
  /\ handlers[s].pc = "set_clearAlarm"
  /\ alarm' = alarm
  /\ IF sessionMode = "default"
     THEN /\ handlers' = [handlers EXCEPT ![s].pc = "set_createAlarm",
                                          ![s].delay = FIXED_DELAY_MINUTES]
          /\ lastReply' = NoReply
     ELSE IF sessionMode = "today"
     THEN /\ handlers' = [handlers EXCEPT ![s].pc = "set_createAlarm",
                                          ![s].delay = MinutesLeft(now)]
          /\ lastReply' = NoReply
     ELSE SetStamp(s)
  /\ UNCHANGED <<now, advances, requests, sessionKey, sessionMode, mirror,
                 storeOK, limits, alarmPc, sess, episode, cleared>>
  /\ UNCHANGED <<vaultVars, codec>>

\* background.js 203-214: alarms.clear takes effect, then the branch on the
\* global sessionMode
SetSessionKeyClearAlarm(s) ==
  /\ handlers[s].pc = "set_clearAlarm"
  /\ alarm' = NoAlarm
  /\ IF sessionMode = "default"
     THEN /\ handlers' = [handlers EXCEPT ![s].pc = "set_createAlarm",
                                          ![s].delay = FIXED_DELAY_MINUTES]
          /\ lastReply' = NoReply
     ELSE IF sessionMode = "today"
     THEN /\ handlers' = [handlers EXCEPT ![s].pc = "set_createAlarm",
                                          ![s].delay = MinutesLeft(now)]
          /\ lastReply' = NoReply
     ELSE SetStamp(s)
  /\ UNCHANGED <<now, advances, requests, sessionKey, sessionMode, mirror,
                 storeOK, limits, alarmPc, sess, episode, cleared>>
  /\ UNCHANGED <<vaultVars, codec>>

\* background.js 207, 213: alarms.create({delayInMinutes}) takes effect; an
\* alarm of the same name is replaced
SetSessionKeyCreateAlarm(s) ==
  /\ handlers[s].pc = "set_createAlarm"
  /\ alarm' = now + handlers[s].delay * MS_PER_MINUTE
  /\ handlers' = [handlers EXCEPT ![s].pc = "set_stamp", ![s].delay = 0]
  /\ lastReply' = NoReply
  /\ UNCHANGED <<now, advances, requests, sessionKey, sessionMode, mirror,
                 storeOK, limits, alarmPc, sess, episode, cleared>>
  /\ UNCHANGED <<vaultVars, codec>>

\* background.js 218-223: the handler resumes and calls storage.session.set
SetSessionKeyStamp(s) ==
  /\ handlers[s].pc = "set_stamp"
  /\ SetStamp(s)
  /\ UNCHANGED <<now, advances, requests, sessionKey, sessionMode, mirror,
                 alarm, storeOK, limits, alarmPc, sess, episode, cleared>>
  /\ UNCHANGED <<vaultVars, codec>>

\* background.js 219-229: storage.session.set takes effect, sendResponse
SetSessionKeyStore(s) ==
  /\ handlers[s].pc = "set_store"
  /\ mirror' = handlers[s].data
  /\ handlers' = [handlers EXCEPT ![s] = IdleHandler]
  /\ lastReply' = Reply("set", TRUE, NoKey)
  /\ sess' = IF handlers[s].alone
             THEN [key |-> handlers[s].keyData,
                   mode |-> handlers[s].data.sessionMode,
                   t |-> handlers[s].t0,
                   createdAt |-> handlers[s].data.sessionCreatedAt,
                   restarted |-> FALSE, alarmFired |-> FALSE, gets |-> 0]
             ELSE sess
  /\ UNCHANGED <<now, advances, requests, sessionKey, sessionMode, alarm,
                 storeOK, limits, alarmPc, episode, cleared>>
  /\ UNCHANGED <<vaultVars, codec>>

(* --------------------------- getSessionKey ----------------------------- *)
\* background.js 232-241: the memory check; without the store the read
\* throws inside the try and the failure response is sent
GetSessionKeyStart ==
  /\ Receive
  /\ IF sessionKey # NoKey
     THEN /\ lastReply' = Reply("get", TRUE, sessionKey)
          /\ sess' = Answered(sess)
          /\ UNCHANGED handlers
     ELSE IF ~storeOK
     THEN /\ lastReply' = Reply("get", FALSE, NoKey)
          /\ sess' = Answered(sess)
          /\ UNCHANGED handlers
     ELSE /\ handlers' = [Disturbed(handlers) EXCEPT ![FreeSlot] =
               [IdleHandler EXCEPT !.action = "get", !.pc = "get_read",
                                   !.alone = (Busy = {})]]
          /\ lastReply' = NoReply
          /\ UNCHANGED sess
  /\ episode' = << >>
  /\ UNCHANGED <<now, advances, sessionKey, sessionMode, mirror, alarm,
                 storeOK, limits, alarmPc, cleared>>
  /\ UNCHANGED <<vaultVars, codec>>

\* background.js 241: storage.session.get reads the mirror
GetSessionKeyRead(s) ==
  /\ handlers[s].pc = "get_read"
  /\ handlers' = [handlers EXCEPT ![s].pc = "get_check", ![s].data = mirror]
  /\ lastReply' = NoReply
  /\ UNCHANGED <<now, advances, requests, sessionKey, sessionMode, mirror,
                 alarm, storeOK, limits, alarmPc, sess, episode, cleared>>
  /\ UNCHANGED <<vaultVars, codec>>

\* background.js 242-272: the handler resumes with the data read
GetSessionKeyCheck(s) ==
  /\ handlers[s].pc = "get_check"
  /\ LET data == handlers[s].data
         mode == ModeOrDefault(data.sessionMode)
         createdAt == CreatedAtOrZero(data.sessionCreatedAt)
     IN  IF data.sessionKey = NoKey
         THEN /\ handlers' = [handlers EXCEPT ![s] = IdleHandler]
              /\ lastReply' = Reply("get", FALSE, NoKey)
              /\ sess' = Answered(sess)
              /\ UNCHANGED <<sessionKey, sessionMode>>
         ELSE IF ~Expired(mode, createdAt, now)
         THEN /\ sessionKey' = data.sessionKey
              /\ sessionMode' = mode
              /\ handlers' = [handlers EXCEPT ![s] = IdleHandler]
              /\ lastReply' = Reply("get", TRUE, data.sessionKey)
              /\ sess' = Answered(sess)
         ELSE /\ handlers' = [handlers EXCEPT ![s].pc = "get_purge",
                                              ![s].data = EmptyMirror]
              /\ lastReply' = NoReply
              /\ UNCHANGED <<sessionKey, sessionMode, sess>>
  /\ UNCHANGED <<now, advances, requests, mirror, alarm, storeOK, limits,
                 alarmPc, episode, cleared>>
  /\ UNCHANGED <<vaultVars, codec>>

\* variant of the expired branch that removes the key only and leaves the
\* mode and the creation time in the mirror
GetSessionKeyPurgeKeyOnly(s) ==
  /\ handlers[s].pc = "get_purge"
  /\ mirror' = [mirror EXCEPT !.sessionKey = NoKey]
  /\ handlers' = [handlers EXCEPT ![s] = IdleHandler]
  /\ lastReply' = Reply("get", FALSE, NoKey)
  /\ sess' = Answered(sess)
  /\ UNCHANGED <<now, advances, requests, sessionKey, sessionMode, alarm,
                 storeOK, limits, alarmPc, episode, cleared>>
  /\ UNCHANGED <<vaultVars, codec>>

\* variant of the expired branch that returns after the remove, without
\* sendResponse
GetSessionKeyPurgeSilent(s) ==
  /\ handlers[s].pc = "get_purge"
  /\ mirror' = EmptyMirror
  /\ handlers' = [handlers EXCEPT ![s] = IdleHandler]
  /\ lastReply' = NoReply
  /\ sess' = Answered(sess)
  /\ UNCHANGED <<now, advances, requests, sessionKey, sessionMode, alarm,
                 storeOK, limits, alarmPc, episode, cleared>>
  /\ UNCHANGED <<vaultVars, codec>>

\* background.js 265, 272: storage.session.remove takes effect, sendResponse
GetSessionKeyPurge(s) ==
  /\ handlers[s].pc = "get_purge"
  /\ mirror' = EmptyMirror
  /\ handlers' = [handlers EXCEPT ![s] = IdleHandler]
  /\ lastReply' = Reply("get", FALSE, NoKey)
  /\ sess' = Answered(sess)
  /\ UNCHANGED <<now, advances, requests, sessionKey, sessionMode, alarm,
                 storeOK, limits, alarmPc, episode, cleared>>
  /\ UNCHANGED <<vaultVars, codec>>

(* ---------------------------- clearSession ----------------------------- *)
\* background.js 276-279: the synchronous part up to await alarms.clear
ClearSessionStart ==
  /\ Receive
  /\ sessionKey' = NoKey
  /\ sessionMode' = "default"
  /\ handlers' = [Disturbed(handlers) EXCEPT ![FreeSlot] =
       [IdleHandler EXCEPT !.action = "clear", !.pc = "clear_alarm",
                           !.alone = (Busy = {})]]
  /\ lastReply' = NoReply
  /\ sess' = NoSess
  /\ episode' = << >>
  /\ UNCHANGED <<now, advances, mirror, alarm, storeOK, limits, alarmPc, cleared>>
  /\ UNCHANGED <<vaultVars, codec>>

\* variant of clearSession that leaves the expiry alarm pending
ClearSessionKeepAlarm(s) ==
  /\ handlers[s].pc = "clear_alarm"
  /\ IF storeOK
     THEN /\ handlers' = [handlers EXCEPT ![s].pc = "clear_store"]
          /\ lastReply' = NoReply
          /\ UNCHANGED cleared
     ELSE /\ handlers' = [handlers EXCEPT ![s] = IdleHandler]
          /\ lastReply' = Reply("clear", TRUE, NoKey)
          /\ cleared' = handlers[s].alone
  /\ UNCHANGED <<now, advances, requests, sessionKey, sessionMode, mirror,
                 alarm, storeOK, limits, alarmPc, sess, episode>>
  /\ UNCHANGED <<vaultVars, codec>>

\* background.js 279-284: alarms.clear takes effect; without the store the
\* remove throws, the catch ignores it and the response is sent
ClearSessionAlarm(s) ==
  /\ handlers[s].pc = "clear_alarm"
  /\ alarm' = NoAlarm
  /\ IF storeOK
     THEN /\ handlers' = [handlers EXCEPT ![s].pc = "clear_store"]
          /\ lastReply' = NoReply
          /\ UNCHANGED cleared
     ELSE /\ handlers' = [handlers EXCEPT ![s] = IdleHandler]
          /\ lastReply' = Reply("clear", TRUE, NoKey)
          /\ cleared' = handlers[s].alone
  /\ UNCHANGED <<now, advances, requests, sessionKey, sessionMode, mirror,
                 storeOK, limits, alarmPc, sess, episode>>
  /\ UNCHANGED <<vaultVars, codec>>

\* background.js 281-284: storage.session.remove takes effect, sendResponse
ClearSessionStore(s) ==
  /\ handlers[s].pc = "clear_store"
  /\ mirror' = EmptyMirror
  /\ handlers' = [handlers EXCEPT ![s] = IdleHandler]
  /\ lastReply' = Reply("clear", TRUE, NoKey)
  /\ cleared' = handlers[s].alone
  /\ UNCHANGED <<now, advances, requests, sessionKey, sessionMode, alarm,
                 storeOK, limits, alarmPc, sess, episode>>
  /\ UNCHANGED <<vaultVars, codec>>

(* ------------------------------ onAlarm -------------------------------- *)
\* background.js 327-332: SESSION_ALARM fires once and leaves chrome.alarms
OnAlarm ==
  /\ AlarmDue
  /\ alarmPc = "idle"
  /\ alarm' = NoAlarm
  /\ sessionKey' = NoKey
  /\ sessionMode' = "default"
  /\ alarmPc' = IF storeOK THEN "alarm_store" ELSE "idle"
  /\ handlers' = DisturbedSets(handlers)
  /\ lastReply' = NoReply
  /\ sess' = IF sess = NoSess THEN sess ELSE [sess EXCEPT !.alarmFired = TRUE]
  /\ episode' = << >>
  /\ UNCHANGED <<now, advances, requests, mirror, storeOK, limits, cleared>>
  /\ UNCHANGED <<vaultVars, codec>>

\* background.js 332: storage.session.remove takes effect
OnAlarmStore ==
  /\ alarmPc = "alarm_store"
  /\ mirror' = EmptyMirror
  /\ alarmPc' = "idle"
  /\ lastReply' = NoReply
  /\ UNCHANGED <<now, advances, requests, sessionKey, sessionMode, alarm,
                 storeOK, limits, handlers, sess, episode, cleared>>
  /\ UNCHANGED <<vaultVars, codec>>

(* --------------------------- the environment --------------------------- *)
\* the service worker is stopped between calls and started again: the
\* module-level variables are initialised anew (background.js 9-10), the
\* session store and the alarms are kept
Restart ==
  /\ Quiescent
  /\ sessionKey' = NoKey
  /\ sessionMode' = "default"
  /\ lastReply' = NoReply
  /\ sess' = IF sess = NoSess THEN sess
             ELSE [sess EXCEPT !.restarted = TRUE, !.gets = 0]
  /\ episode' = << >>
  /\ UNCHANGED <<now, advances, requests, mirror, alarm, storeOK, limits, handlers,
                 alarmPc, cleared>>
  /\ UNCHANGED <<vaultVars, codec>>

\* the browser is closed: chrome.storage.session is destroyed with the
\* service worker
BrowserClose ==
  /\ Quiescent
  /\ sessionKey' = NoKey
  /\ sessionMode' = "default"
  /\ mirror' = EmptyMirror
  /\ lastReply' = NoReply
  /\ sess' = NoSess
  /\ episode' = << >>
  /\ UNCHANGED <<now, advances, requests, alarm, storeOK, limits, handlers, alarmPc,
                 cleared>>
  /\ UNCHANGED <<vaultVars, codec>>

(* ------------------------------ onInstalled ---------------------------- *)
\* background.js 105-122: the onInstalled listener.  On 'install' it calls
\* initializeDefaultData, which reads and writes nothing; on 'update' it
\* awaits checkNeedsMigration, which reads masterPassword
OnInstalled ==
  /\ install.pc = "pending"
  /\ install' = [install EXCEPT !.pc =
       IF install.reason = "update" /\ local.masterPassword # << >>
       THEN "backup_read" ELSE "done"]
  /\ outcome' = NoOutcome
  /\ UNCHANGED <<local, ctx, faults, ops, owner, codec, sessionVars>>

\* background.js 141-143: backupOldData reads the accounts and masterPassword
OnInstalledBackupRead ==
  /\ install.pc = "backup_read"
  /\ install' = [install EXCEPT !.pc = "backup_write", !.data = local]
  /\ outcome' = NoOutcome
  /\ UNCHANGED <<local, ctx, faults, ops, owner, codec, sessionVars>>

\* background.js 144-154: storage.local.set({backup_v1_2_0}) takes effect; the
\* catch logs a failure of the write and nothing else
OnInstalledBackupWrite ==
  /\ install.pc = "backup_write"
  /\ \E ok \in Outcomes :
       /\ faults' = IF ok THEN faults ELSE faults + 1
       /\ local' = IF ok
                   THEN [local EXCEPT !.backup_v1_2_0 =
                           [timestamp |-> now, version |-> "1.2.0",
                            accounts |-> install.data.accounts,
                            masterPassword |-> install.data.masterPassword]]
                   ELSE local
  /\ install' = [install EXCEPT !.pc = "done", !.data = EmptyLocal]
  /\ outcome' = NoOutcome
  /\ UNCHANGED <<ctx, ops, owner, codec, sessionVars>>

(* ----------------------- initializeMasterPassword ---------------------- *)
\* part_002 195-221: the strength check, the salt, the key and the
\* verification data, up to await storage.local.set
InitializeMasterPassword(c, masterPassword, salt, iv) ==
  /\ CanCall(c)
  /\ ops' = ops + 1
  /\ LET validation == validatePasswordStrength(masterPassword)
         call == [IdleCtx EXCEPT !.op = "initialize", !.password = masterPassword]
     IN  IF ~validation.valid
         THEN /\ outcome' = Result(call, FALSE, validation.message)
              /\ UNCHANGED ctx
         ELSE /\ ctx' = [ctx EXCEPT ![c] =
                   [call EXCEPT !.pc = "init_store",
                                !.key = SecurityConfigs[masterPassword, salt, iv].key,
                                !.config = [SecurityConfigs[masterPassword, salt, iv].config
                                              EXCEPT !.createdAt = now]]]
              /\ outcome' = NoOutcome
  /\ UNCHANGED <<local, install, faults, owner, codec, sessionVars>>

\* part_002 221-229: storage.local.set({securityConfig}) takes effect and the
\* setSessionKey message is sent; a failure of the write is caught (231-234)
InitializeStore(c) ==
  /\ ctx[c].pc = "init_store"
  /\ \E ok \in Outcomes :
       /\ faults' = IF ok THEN faults ELSE faults + 1
       /\ IF ok
          THEN /\ local' = [local EXCEPT !.securityConfig = ctx[c].config]
               /\ owner' = ctx[c].password
               /\ SetSessionKeyReceive(arrayBufferToBase64(ctx[c].key), "default", c)
               /\ ctx' = [ctx EXCEPT ![c].pc = "init_await"]
               /\ outcome' = NoOutcome
          ELSE /\ ctx' = [ctx EXCEPT ![c] = IdleCtx]
               /\ outcome' = Result(ctx[c], FALSE, "error")
               /\ UNCHANGED <<local, owner, sessionVars>>
  /\ UNCHANGED <<install, ops, codec>>

\* part_002 224-230: the response of the background has arrived; inside
\* migrateFromOldVersion (355-358) the migration goes on
InitializeDone(c) ==
  /\ ctx[c].pc = "init_await"
  /\ Responded(c)
  /\ IF ctx[c].op = "migrate"
     THEN /\ ctx' = [ctx EXCEPT ![c].pc = "migrate_config"]
          /\ outcome' = NoOutcome
     ELSE /\ ctx' = [ctx EXCEPT ![c] = IdleCtx]
          /\ outcome' = Result(ctx[c], TRUE, "ok")
  /\ UNCHANGED <<local, install, faults, ops, owner, codec, sessionVars>>

(* ------------------------ verifyMasterPassword ------------------------- *)
\* part_002 244-247: storage.local.get('securityConfig') reads the config
VerifyMasterPassword(c, inputPassword, mode) ==
  /\ CanCall(c)
  /\ ops' = ops + 1
  /\ ctx' = [ctx EXCEPT ![c] =
       [IdleCtx EXCEPT !.op = "verify", !.pc = "verify_check", !.password = inputPassword,
                       !.mode = mode, !.config = local.securityConfig, !.owner = owner]]
  /\ outcome' = NoOutcome
  /\ UNCHANGED <<local, install, faults, owner, codec, sessionVars>>

\* variant of verifyMasterPassword that sends setSessionKey before it
\* compares the decrypted text
VerifyCheckInstallsFirst(c) ==
  /\ ctx[c].pc = "verify_check"
  /\ LET config == ctx[c].config
         salt == base64ToArrayBuffer(config.salt)
         key == SecurityManagerDeriveKey(ctx[c].password, salt.val)
         decrypted == SecurityManagerDecrypt(config.verificationData, JsKey(key))
         failure == IF config = NoConfig THEN "notInitialized"
                    ELSE IF ~salt.ok THEN "error"
                    ELSE IF decrypted.ok /\ decrypted.val = VERIFICATION_TEXT THEN ""
                    ELSE "wrongPassword"
     IN  IF failure \in {"", "wrongPassword"}
         THEN /\ SetSessionKeyReceive(arrayBufferToBase64(key), ctx[c].mode, c)
              /\ IF failure = ""
                 THEN /\ ctx' = [ctx EXCEPT ![c].pc = "verify_await", ![c].key = key]
                      /\ outcome' = NoOutcome
                 ELSE /\ ctx' = [ctx EXCEPT ![c] = IdleCtx]
                      /\ outcome' = Result(ctx[c], FALSE, failure)
         ELSE /\ ctx' = [ctx EXCEPT ![c] = IdleCtx]
              /\ outcome' = Result(ctx[c], FALSE, failure)
              /\ UNCHANGED sessionVars
  /\ UNCHANGED <<local, install, faults, ops, owner, codec>>

\* part_002 248-284: the key of the input, the decryption of the
\* verification data and, when it gives VERIFICATION_TEXT, the setSessionKey
\* message; a salt that atob rejects throws to the outer catch
VerifyCheck(c) ==
  /\ ctx[c].pc = "verify_check"
  /\ LET config == ctx[c].config
         salt == base64ToArrayBuffer(config.salt)
         key == SecurityManagerDeriveKey(ctx[c].password, salt.val)
         decrypted == SecurityManagerDecrypt(config.verificationData, JsKey(key))
         failure == IF config = NoConfig THEN "notInitialized"
                    ELSE IF ~salt.ok THEN "error"
                    ELSE IF decrypted.ok /\ decrypted.val = VERIFICATION_TEXT THEN ""
                    ELSE "wrongPassword"
     IN  IF failure = ""
         THEN /\ SetSessionKeyReceive(arrayBufferToBase64(key), ctx[c].mode, c)
              /\ ctx' = [ctx EXCEPT ![c].pc = "verify_await", ![c].key = key]
              /\ outcome' = NoOutcome
         ELSE /\ ctx' = [ctx EXCEPT ![c] = IdleCtx]
              /\ outcome' = Result(ctx[c], FALSE, failure)
              /\ UNCHANGED sessionVars
  /\ UNCHANGED <<local, install, faults, ops, owner, codec>>

\* part_002 265-271: the response of the background has arrived
VerifyDone(c) ==
  /\ ctx[c].pc = "verify_await"
  /\ Responded(c)
  /\ ctx' = [ctx EXCEPT ![c] = IdleCtx]
  /\ outcome' = Result(ctx[c], TRUE, "ok")
  /\ UNCHANGED <<local, install, faults, ops, owner, codec, sessionVars>>

(* ------------------------ migrateFromOldVersion ------------------------ *)
\* part_002 311-314: storage.local.get(['masterPassword', 'accounts'])
MigrateFromOldVersion(c, oldMasterPassword, newMasterPassword) ==
  /\ CanCall(c)
  /\ ops' = ops + 1
  /\ ctx' = [ctx EXCEPT ![c] =
       [IdleCtx EXCEPT !.op = "migrate", !.pc = "migrate_check",
                       !.oldPassword = oldMasterPassword, !.password = newMasterPassword,
                       !.masterPassword = local.masterPassword,
                       !.accounts = local.accounts, !.read = local.accounts]]
  /\ outcome' = NoOutcome
  /\ UNCHANGED <<local, install, faults, owner, codec, sessionVars>>

\* variant of migrateFromOldVersion without the comparison of the old
\* master password
MigrateCheckWithoutCompare(c) ==
  /\ ctx[c].pc = "migrate_check"
  /\ LET call == ctx[c]
         validation == validatePasswordStrength(call.password)
         failure == IF call.masterPassword = << >> THEN "noLegacyData"
                    ELSE IF ~validation.valid THEN validation.message
                    ELSE ""
         decryptedAccounts == [i \in 1..Len(call.accounts) |->
                                 Decrypted(call.accounts[i], call.oldPassword)]
     IN  IF failure = ""
         THEN /\ \E salt \in Salts, iv \in Ivs :
                   ctx' = [ctx EXCEPT ![c] =
                     [call EXCEPT !.pc = "init_store",
                                  !.accounts = decryptedAccounts,
                                  !.key = SecurityConfigs[call.password, salt, iv].key,
                                  !.config = [SecurityConfigs[call.password, salt, iv].config
                                                EXCEPT !.createdAt = now]]]
              /\ outcome' = NoOutcome
         ELSE /\ ctx' = [ctx EXCEPT ![c] = IdleCtx]
              /\ outcome' = Result(call, FALSE, failure)
  /\ UNCHANGED <<local, install, faults, ops, owner, codec, sessionVars>>

\* part_002 315-358 and 195-221: the checks of the legacy master password,
\* the decryption of the accounts and the start of initializeMasterPassword
\* with the salt and the IV that getRandomValues returns
MigrateCheck(c) ==
  /\ ctx[c].pc = "migrate_check"
  /\ LET call == ctx[c]
         validation == validatePasswordStrength(call.password)
         failure == IF call.masterPassword = << >> THEN "noLegacyData"
                    ELSE IF call.masterPassword # call.oldPassword THEN "wrongOldPassword"
                    ELSE IF ~validation.valid THEN validation.message
                    ELSE ""
         decryptedAccounts == [i \in 1..Len(call.accounts) |->
                                 Decrypted(call.accounts[i], call.oldPassword)]
     IN  IF failure = ""
         THEN /\ \E salt \in Salts, iv \in Ivs :
                   ctx' = [ctx EXCEPT ![c] =
                     [call EXCEPT !.pc = "init_store",
                                  !.accounts = decryptedAccounts,
                                  !.key = SecurityConfigs[call.password, salt, iv].key,
                                  !.config = [SecurityConfigs[call.password, salt, iv].config
                                                EXCEPT !.createdAt = now]]]
              /\ outcome' = NoOutcome
         ELSE /\ ctx' = [ctx EXCEPT ![c] = IdleCtx]
              /\ outcome' = Result(call, FALSE, failure)
  /\ UNCHANGED <<local, install, faults, ops, owner, codec, sessionVars>>

\* part_002 360-375: storage.local.get('securityConfig') reads the salt, the
\* new key is derived and the accounts are encrypted under it, each with the
\* IV that getRandomValues returns; without a securityConfig the read of
\* its salt throws
MigrateReEncrypt(c, iv) ==
  /\ ctx[c].pc = "migrate_config"
  /\ LET call == ctx[c]
         newSalt == base64ToArrayBuffer(local.securityConfig.salt)
         newKey == SecurityManagerDeriveKey(call.password, newSalt.val)
     IN  IF local.securityConfig = NoConfig \/ ~newSalt.ok
         THEN /\ ctx' = [ctx EXCEPT ![c] = IdleCtx]
              /\ outcome' = Result(call, FALSE, "error")
         ELSE /\ ctx' = [ctx EXCEPT ![c].pc = "migrate_save",
                                    ![c].accounts = [i \in 1..Len(call.accounts) |->
                                       ReEncrypted(call.accounts[i], newKey, AccountIv(iv, i))]]
              /\ outcome' = NoOutcome
  /\ UNCHANGED <<local, install, faults, ops, owner, codec, sessionVars>>

\* part_002 377-378: storage.local.set({accounts}) takes effect; a failure of
\* the write is caught (384-387)
MigrateSave(c) ==
  /\ ctx[c].pc = "migrate_save"
  /\ \E ok \in Outcomes :
       /\ faults' = IF ok THEN faults ELSE faults + 1
       /\ IF ok
          THEN /\ local' = [local EXCEPT !.accounts = ctx[c].accounts]
               /\ ctx' = [ctx EXCEPT ![c].pc = "migrate_remove"]
               /\ outcome' = NoOutcome
          ELSE /\ ctx' = [ctx EXCEPT ![c] = IdleCtx]
               /\ outcome' = Result(ctx[c], FALSE, "error")
               /\ UNCHANGED local
  /\ UNCHANGED <<install, ops, owner, codec, sessionVars>>

\* part_002 380-383: storage.local.remove('masterPassword') takes effect
MigrateRemove(c) ==
  /\ ctx[c].pc = "migrate_remove"
  /\ \E ok \in Outcomes :
       /\ faults' = IF ok THEN faults ELSE faults + 1
       /\ local' = IF ok THEN [local EXCEPT !.masterPassword = << >>] ELSE local
       /\ outcome' = Result(ctx[c], ok, IF ok THEN "ok" ELSE "error")
  /\ ctx' = [ctx EXCEPT ![c] = IdleCtx]
  /\ UNCHANGED <<install, ops, owner, codec, sessionVars>>

(* ------------------------------ the codec ------------------------------ *)
\* background.js 515-524: encryptPassword(s, key), which calls
\* CryptoUtils.encrypt
CodecEncryptPassword ==
  /\ codec.stage = "input"
  /\ codec' = [codec EXCEPT !.stage = "encrypted", !.layout = "CryptoUtils",
                            !.blob = encryptPassword(codec.s, codec.key, codec.salt,
                                                     codec.iv).val]
  /\ UNCHANGED <<sessionVars, vaultVars>>

\* background.js 533-547: decryptPassword(blob, key), with the key of the
\* encryption and with the other key
CodecDecryptPassword ==
  /\ codec.stage = "encrypted"
  /\ codec.layout = "CryptoUtils"
  /\ codec' = [codec EXCEPT !.stage = "decrypted",
                            !.plain = decryptPassword(codec.blob, codec.key),
                            !.plainOther = decryptPassword(codec.blob, codec.other)]
  /\ UNCHANGED <<sessionVars, vaultVars>>

\* part_002 144-164: SecurityManager.encrypt(s, key) with a CryptoKey
CodecSecurityManagerEncrypt ==
  /\ codec.stage = "input"
  /\ codec.key.kind = "CryptoKey"
  /\ codec' = [codec EXCEPT !.stage = "encrypted", !.layout = "SecurityManager",
                            !.blob = SecurityManagerEncrypt(codec.s, codec.key, codec.iv).val]
  /\ UNCHANGED <<sessionVars, vaultVars>>

\* part_002 172-188: SecurityManager.decrypt(blob, key), with the key of the
\* encryption and with the other key
CodecSecurityManagerDecrypt ==
  /\ codec.stage = "encrypted"
  /\ codec.layout = "SecurityManager"
  /\ codec' = [codec EXCEPT !.stage = "decrypted",
                            !.plain = SecurityManagerDecrypt(codec.blob, codec.key),
                            !.plainOther = SecurityManagerDecrypt(codec.blob, codec.other)]
  /\ UNCHANGED <<sessionVars, vaultVars>>

Next ==
  \/ Advance
  \/ \E k \in Keys, m \in Modes \cup {Undefined} : SetSessionKeyStart(k, m)
  \/ \E s \in Slots : SetSessionKeyClearAlarm(s)
  \/ \E s \in Slots : SetSessionKeyCreateAlarm(s)
  \/ \E s \in Slots : SetSessionKeyStamp(s)
  \/ \E s \in Slots : SetSessionKeyStore(s)
  \/ GetSessionKeyStart
  \/ \E s \in Slots : GetSessionKeyRead(s)
  \/ \E s \in Slots : GetSessionKeyCheck(s)
  \/ \E s \in Slots : GetSessionKeyPurge(s)
  \/ ClearSessionStart
  \/ \E s \in Slots : ClearSessionAlarm(s)
  \/ \E s \in Slots : ClearSessionStore(s)
  \/ OnAlarm
  \/ OnAlarmStore
  \/ Restart
  \/ BrowserClose

Spec == Init /\ [][Next]_vars
SpecRace == InitRace /\ [][Next]_vars

\* the promises of chrome.storage.session settle and the event loop resumes
\* the getSessionKey handler that awaits them; the service worker is not
\* stopped while a handler is in flight
SpecLive ==
  /\ Init
  /\ [][Next]_vars
  /\ \A s \in Slots : /\ WF_vars(GetSessionKeyRead(s))
                      /\ WF_vars(GetSessionKeyCheck(s))
                      /\ WF_vars(GetSessionKeyPurge(s))

\* the master password scheme: one foreground context calls the
\* SecurityManager on a store that is new or comes from version 1; the
\* onInstalled handler has run before the popup opens, and the clock stands
VaultLimits ==
  [inFlight |-> 1, requests |-> MaxOps, advances |-> 0, delays |-> {}, latencies |-> {},
   ops |-> MaxOps]

InitVault ==
  /\ InitWith(VaultLimits, {0}, {TRUE})
  /\ \/ /\ local = EmptyLocal
        /\ install = [reason |-> "install", pc |-> "pending", data |-> EmptyLocal]
     \/ /\ \E p \in LegacyPasswords : local = LegacyLocal(p, MaxAccounts)
        /\ install = [reason |-> "update", pc |-> "pending", data |-> EmptyLocal]
  /\ ctx = [c \in Contexts |-> IdleCtx]
  /\ faults = 0
  /\ ops = 0
  /\ outcome = NoOutcome
  /\ owner = << >>
  /\ codec = NoTrial

NextVault ==
  \/ OnInstalled
  \/ OnInstalledBackupRead
  \/ OnInstalledBackupWrite
  \/ \E c \in Contexts, p \in Passphrases \cup WeakPassphrases, salt \in Salts, iv \in Ivs :
       InitializeMasterPassword(c, p, salt, iv)
  \/ \E c \in Contexts : InitializeStore(c)
  \/ \E c \in Contexts : InitializeDone(c)
  \/ \E c \in Contexts, p \in Passphrases, m \in Modes : VerifyMasterPassword(c, p, m)
  \/ \E c \in Contexts : VerifyCheck(c)
  \/ \E c \in Contexts : VerifyDone(c)
  \/ \E c \in Contexts, old \in LegacyPasswords, new \in Passphrases :
       MigrateFromOldVersion(c, old, new)
  \/ \E c \in Contexts : MigrateCheck(c)
  \/ \E c \in Contexts, iv \in Ivs : MigrateReEncrypt(c, iv)
  \/ \E c \in Contexts : MigrateSave(c)
  \/ \E c \in Contexts : MigrateRemove(c)
  \/ \E s \in Slots : SetSessionKeyClearAlarm(s)
  \/ \E s \in Slots : SetSessionKeyCreateAlarm(s)
  \/ \E s \in Slots : SetSessionKeyStamp(s)
  \/ \E s \in Slots : SetSessionKeyStore(s)

SpecVault == InitVault /\ [][NextVault]_vars

\* ways in which a stored securityConfig can be damaged: the salt no base64
\* ("!!!!"), the salt absent (atob(undefined)), the salt empty, the salt that
\* of another config, the verificationData no base64, cut after its IV, or
\* with its last byte changed
Damages ==
  {"none", "saltUndecodable", "saltAbsent", "saltEmpty", "saltOther",
   "dataUndecodable", "dataCut", "dataChanged"}

Damaged(config, damage) ==
  CASE damage = "saltUndecodable" -> [config EXCEPT !.salt = <<33, 33, 33, 33>>]
    [] damage = "saltAbsent" ->
         [config EXCEPT !.salt = <<117, 110, 100, 101, 102, 105, 110, 101, 100>>]
    [] damage = "saltEmpty" -> [config EXCEPT !.salt = << >>]
    [] damage = "saltOther" ->
         [config EXCEPT !.salt = arrayBufferToBase64(Pad(<<34, 1>>, SALT_LENGTH))]
    [] damage = "dataUndecodable" -> [config EXCEPT !.verificationData = <<33, 33, 33, 33>>]
    [] damage = "dataCut" ->
         [config EXCEPT !.verificationData = SubSeq(@, 1, 16)]
    [] damage = "dataChanged" ->
         [config EXCEPT !.verificationData =
            arrayBufferToBase64([base64ToArrayBuffer(@).val EXCEPT
                                   ![Len(base64ToArrayBuffer(@).val)] = (@ + 1) % 256])]
    [] OTHER -> config

\* verification against a stored securityConfig: "Abcd1234" was initialised
\* in an earlier session of the browser, the config has been damaged since
\* or is intact, and the popup verifies passphrases
InitDamaged ==
  /\ InitWith(VaultLimits, InitTimes, {TRUE})
  /\ \E damage \in Damages :
       local = [EmptyLocal EXCEPT !.securityConfig =
                  Damaged([SecurityConfigs[<<65, 98, 99, 100, 49, 50, 51, 52>>,
                                           Pad(<<17>>, SALT_LENGTH),
                                           Pad(<<5>>, IV_LENGTH)].config
                             EXCEPT !.createdAt = 0], damage)]
  /\ install = [reason |-> "update", pc |-> "done", data |-> EmptyLocal]
  /\ ctx = [c \in Contexts |-> IdleCtx]
  /\ faults = 0
  /\ ops = 0
  /\ outcome = NoOutcome
  /\ owner = <<65, 98, 99, 100, 49, 50, 51, 52>>
  /\ codec = NoTrial

NextDamaged ==
  \/ \E c \in Contexts, p \in Passphrases, m \in Modes : VerifyMasterPassword(c, p, m)
  \/ \E c \in Contexts : VerifyCheck(c)
  \/ \E c \in Contexts : VerifyDone(c)
  \/ \E s \in Slots : SetSessionKeyClearAlarm(s)
  \/ \E s \in Slots : SetSessionKeyCreateAlarm(s)
  \/ \E s \in Slots : SetSessionKeyStamp(s)
  \/ \E s \in Slots : SetSessionKeyStore(s)

SpecDamaged == InitDamaged /\ [][NextDamaged]_vars

\* the codec: the arguments of a call are drawn, then the call is made
(* ------------------- two foreground contexts at once ------------------- *)
\* two contexts (the popup and the floating panel) run initializeSecurity on
\* the same store; every chrome.storage.local write succeeds
ForegroundRaceLimits ==
  [inFlight |-> MaxInFlight, requests |-> MaxOps, advances |-> 0, delays |-> {},
   latencies |-> {}, ops |-> MaxOps]

\* the passphrases typed into the prompts: "Abcd1234" and "abcd1234"
PromptPassphrases ==
  {<<65, 98, 99, 100, 49, 50, 51, 52>>, <<97, 98, 99, 100, 49, 50, 51, 52>>}

\* popup.js 1527-1533 and 1548-1588: without a legacy masterPassword and
\* without a securityConfig, promptMasterPasswordSetup calls
\* initializeMasterPassword with the passphrase typed
PromptMasterPasswordSetup(c, p, salt, iv) ==
  /\ local.masterPassword = << >>
  /\ local.securityConfig = NoConfig
  /\ InitializeMasterPassword(c, p, salt, iv)

\* popup.js 1521-1526 and 1650-1711: with a legacy masterPassword,
\* promptDataMigration calls migrateFromOldVersion with the passphrases typed
PromptDataMigration(c, oldPassword, newPassword) ==
  /\ local.masterPassword # << >>
  /\ MigrateFromOldVersion(c, oldPassword, newPassword)

InitForegroundRace ==
  /\ InitWith(ForegroundRaceLimits, {0}, {TRUE})
  /\ local \in {EmptyLocal, LegacyLocal(LegacyPassword, MaxAccounts)}
  /\ install = [reason |-> "update", pc |-> "done", data |-> EmptyLocal]
  /\ ctx = [c \in Contexts |-> IdleCtx]
  /\ faults = MaxFaults
  /\ ops = 0
  /\ outcome = NoOutcome
  /\ owner = << >>
  /\ codec = NoTrial

NextForegroundRace ==
  \/ \E c \in Contexts, p \in PromptPassphrases, salt \in Salts, iv \in Ivs :
       PromptMasterPasswordSetup(c, p, salt, iv)
  \/ \E c \in Contexts : InitializeStore(c)
  \/ \E c \in Contexts : InitializeDone(c)
  \/ \E c \in Contexts, new \in PromptPassphrases :
       PromptDataMigration(c, LegacyPassword, new)
  \/ \E c \in Contexts : MigrateCheck(c)
  \/ \E c \in Contexts, iv \in Ivs : MigrateReEncrypt(c, iv)
  \/ \E c \in Contexts : MigrateSave(c)
  \/ \E c \in Contexts : MigrateRemove(c)
  \/ \E s \in Slots : SetSessionKeyClearAlarm(s)
  \/ \E s \in Slots : SetSessionKeyCreateAlarm(s)
  \/ \E s \in Slots : SetSessionKeyStamp(s)
  \/ \E s \in Slots : SetSessionKeyStore(s)

SpecForegroundRace == InitForegroundRace /\ [][NextForegroundRace]_vars

(* --------------------------- saving an account ------------------------- *)
\* passwords typed into the account forms
FormPasswords == {<<112, 119, 49>>, <<104, 117, 110, 116, 101, 114, 50>>}

\* accounts.push(newAccount), or accounts[index] = {...accounts[index],
\* password} when target is the index of the account being edited
WithAccount(accounts, target, password) ==
  IF target = 0 THEN Append(accounts, Account(Len(accounts) + 1, password))
  ELSE [accounts EXCEPT ![target].password = password]

\* part_002 394-413 and background.js 234-237: SecurityManager.getSessionKey()
\* imports the key that the background answers with from its memory; null
\* without one
ImportedSessionKey ==
  IF sessionKey = NoKey \/ ~base64ToArrayBuffer(sessionKey).ok THEN JsKey(<< >>)
  ELSE JsKey(base64ToArrayBuffer(sessionKey).val)

\* popup.js 1141-1243: AccountManager.handleAccountSubmit() with a password
\* typed, for a new account (target 0) or the account edited: without a
\* session key, or when encryptPassword throws, nothing is saved
HandleAccountSubmit(c, target, password, salt, iv) ==
  /\ CanCall(c)
  /\ target \in 0..Len(local.accounts)
  /\ Len(local.accounts) + (IF target = 0 THEN 1 ELSE 0) <= MaxAccounts
  /\ ops' = ops + 1
  /\ LET key == ImportedSessionKey
         encryptedPassword == encryptPassword(password, key, salt, iv)
     IN  IF key = JsKey(<< >>)
         THEN /\ outcome' = [NoOutcome EXCEPT !.op = "save", !.message = "noSessionKey",
                                              !.password = password]
              /\ UNCHANGED local
         ELSE IF ~encryptedPassword.ok
         THEN /\ outcome' = [NoOutcome EXCEPT !.op = "save", !.message = "encryptFailed",
                                              !.password = password]
              /\ UNCHANGED local
         ELSE /\ local' = [local EXCEPT !.accounts =
                             WithAccount(@, target, encryptedPassword.val)]
              /\ outcome' = [NoOutcome EXCEPT !.op = "save", !.success = TRUE,
                                              !.message = "ok", !.password = password]
  /\ UNCHANGED <<install, ctx, faults, owner, codec, sessionVars>>

\* popup.js 3815-3857: FloatingPanel.handleAddAccountSubmit() with a password
\* typed: window.cryptoUtils.encryptPassword(password) is called without a
\* key, and the catch of its exception stores the password as typed
FloatingPanelAddAccount(c, password, salt, iv) ==
  /\ CanCall(c)
  /\ Len(local.accounts) < MaxAccounts
  /\ ops' = ops + 1
  /\ LET attempt == encryptPassword(password, JsKey(<< >>), salt, iv)
         encryptedPassword == IF attempt.ok THEN attempt.val ELSE password
     IN  /\ local' = [local EXCEPT !.accounts = WithAccount(@, 0, encryptedPassword)]
         /\ outcome' = [NoOutcome EXCEPT !.op = "floatingAdd", !.success = TRUE,
                                         !.message = "ok", !.password = password]
  /\ UNCHANGED <<install, ctx, faults, owner, codec, sessionVars>>

\* the popup and the floating panel on a store that initializeMasterPassword
\* has configured: verifications and account saves
NextAccounts ==
  \/ NextDamaged
  \/ \E c \in Contexts, target \in 0..MaxAccounts, password \in FormPasswords,
        salt \in Salts, iv \in Ivs : HandleAccountSubmit(c, target, password, salt, iv)
  \/ \E c \in Contexts, password \in FormPasswords, salt \in Salts, iv \in Ivs :
       FloatingPanelAddAccount(c, password, salt, iv)

SpecAccounts == InitDamaged /\ [][NextAccounts]_vars

(* ------------------------------ exportData ----------------------------- *)
\* strings that an accounts[].password of chrome.storage.local can hold: blobs
\* of CryptoUtils.encryptPassword and of SecurityManager.encrypt (of "pw1"
\* and of the empty password), the empty string, plaintexts of 7 and 8
\* characters, a plaintext of 40 letters, 36 letters, and base64 digits with
\* a misplaced "="
StoredPasswordForms ==
  { CryptoUtilsEncrypt(<<112, 119, 49>>, JsString(<<107, 49>>), LegacySalt, LegacyIv).val,
    SecurityManagerEncrypt(<<112, 119, 49>>, JsKey(Pad(<<9>>, KEY_LENGTH)),
                           LegacyIv).val,
    SecurityManagerEncrypt(<< >>, JsKey(Pad(<<9>>, KEY_LENGTH)), LegacyIv).val,
    << >>,
    <<104, 117, 110, 116, 101, 114, 50>>,
    <<65, 98, 99, 100, 49, 50, 51, 52>>,
    [i \in 1..40 |-> 97 + (i % 26)],
    [i \in 1..36 |-> 97 + (i % 26)],
    <<97, 98, PadChar, 100>> }

\* accounts collections of up to MaxAccounts accounts
AccountCollections ==
  UNION {{[i \in 1..n |-> Account(i, f[i])] : f \in [1..n -> StoredPasswordForms]} :
           n \in 0..MaxAccounts}

NoDocument == [version |-> "none", accounts |-> << >>]

\* variant of exportData that checks the password of the first account only
ExportCheckingFirst(accounts, confirmed) ==
  IF ~confirmed THEN [exported |-> FALSE, message |-> "cancelled", document |-> NoDocument]
  ELSE IF accounts # << >> /\ ~isBase64(accounts[1].password)
  THEN [exported |-> FALSE, message |-> "notEncrypted", document |-> NoDocument]
  ELSE [exported |-> TRUE, message |-> "ok",
        document |-> [version |-> "2.0", accounts |-> accounts]]

\* popup.js 1287-1347, as a function of the stored accounts and of the answer
\* to confirm(): the loop over the accounts returns at the first password
\* that isBase64 rejects, otherwise the document is built and downloaded
exportData(accounts, confirmed) ==
  IF ~confirmed THEN [exported |-> FALSE, message |-> "cancelled", document |-> NoDocument]
  ELSE IF \E i \in 1..Len(accounts) : ~isBase64(accounts[i].password)
  THEN [exported |-> FALSE, message |-> "notEncrypted", document |-> NoDocument]
  ELSE [exported |-> TRUE, message |-> "ok",
        document |-> [version |-> "2.0", accounts |-> accounts]]

\* popup.js 1287-1347: AccountManager.exportData() on the accounts of
\* chrome.storage.local
ExportData(c, confirmed) ==
  /\ CanCall(c)
  /\ ops' = ops + 1
  /\ LET result == exportData(local.accounts, confirmed)
     IN  outcome' = [NoOutcome EXCEPT !.op = "export", !.success = result.exported,
                                      !.message = result.message,
                                      !.read = result.document.accounts]
  /\ UNCHANGED <<local, install, ctx, faults, owner, codec, sessionVars>>

InitExport ==
  /\ InitWith(VaultLimits, {0}, {TRUE})
  /\ InitForeground({[EmptyLocal EXCEPT !.accounts = a] : a \in AccountCollections})
  /\ codec = NoTrial

NextExport ==
  \E c \in Contexts, confirmed \in BOOLEAN : ExportData(c, confirmed)

SpecExport == InitExport /\ [][NextExport]_vars

InitCodec ==
  /\ InitWith(SeqLimits, {0}, {TRUE})
  /\ InitForeground({EmptyLocal})
  /\ codec \in [stage : {"input"}, layout : {"none"}, s : Plaintexts, key : CodecKeys,
                other : CodecKeys, salt : Salts, iv : Ivs, blob : {<< >>},
                plain : {Thrown}, plainOther : {Thrown}]

NextCodec ==
  \/ CodecEncryptPassword
  \/ CodecDecryptPassword
  \/ CodecSecurityManagerEncrypt
  \/ CodecSecurityManagerDecrypt

SpecCodec == InitCodec /\ [][NextCodec]_vars

(***************************************************************************)
(* Properties of the session authority                                     *)
(***************************************************************************)
\* the expiry rule as the session contract states it: Fixed by the time
\* elapsed since sessionCreatedAt, EndOfDay by the calendar day, and
\* UntilBrowserClose never
RuleExpired(mode, createdAt, t) ==
  CASE mode = "default" -> t - createdAt > SESSION_DURATION
    [] mode = "today"   -> DateString(t) # DateString(createdAt)
    [] OTHER            -> FALSE

\* a getSessionKey has just been answered, the first one since the service
\* worker restarted under the session that a setSessionKey installed
FirstGetAfterRestart ==
  /\ sess # NoSess
  /\ sess.restarted
  /\ sess.gets = 1
  /\ lastReply.action = "get"

C2_FixedExpiry ==
  (sess # NoSess /\ sess.mode = "default" /\ lastReply.action = "get")
    => IF now < sess.t + SESSION_DURATION
       THEN lastReply.keyData = sess.key
       ELSE lastReply.keyData = NoKey

\* C3: no getSessionKey issued on a later calendar day than the day on which
\* setSessionKey(k, 'today') created the session returns k
C3_EndOfDayExpiry ==
  (sess # NoSess /\ sess.mode = "today" /\ lastReply.action = "get"
     /\ DateString(now) > DateString(sess.t))
    => lastReply.keyData # sess.key

\* C9: once a clearSession that no other request overlapped has completed,
\* the in-memory key is absent, the mirror holds no key, mode or creation
\* time, no alarm is pending and getSessionKey returns no key, until the
\* next setSessionKey
C9_ClearSessionUnconditional ==
  cleared =>
    /\ sessionKey = NoKey
    /\ mirror = EmptyMirror
    /\ alarm = NoAlarm
    /\ lastReply.action = "get" => (~lastReply.success /\ lastReply.keyData = NoKey)

\* a clearSession ended an active session with a pending alarm, and a
\* getSessionKey was answered afterwards
C9_Witness ==
  /\ cleared
  /\ requests = 3
  /\ storeOK
  /\ lastReply.action = "get"

VerifiedAgainstOwner == outcome.op = "verify" /\ outcome.owner # << >>

\* C4 as stated: after initializeMasterPassword(p), verifyMasterPassword(p)
\* succeeds and verifyMasterPassword(p') of every p' # p fails with the
\* wrong-password outcome
C4_InitThenVerify ==
  VerifiedAgainstOwner
    => IF outcome.password = outcome.owner
       THEN outcome.success
       ELSE ~outcome.success /\ outcome.message = "wrongPassword"

\* C4 amended: after initializeMasterPassword(p), verifyMasterPassword(p)
\* succeeds and verifyMasterPassword(p') fails with the wrong-password
\* outcome for every p' # p, when p and p' are well-formed strings (without
\* unpaired surrogates)
C4_InitThenVerifyWellFormed ==
  VerifiedAgainstOwner
    => IF outcome.password = outcome.owner
       THEN outcome.success
       ELSE (WellFormed(outcome.password) /\ WellFormed(outcome.owner))
              => (~outcome.success /\ outcome.message = "wrongPassword")

\* "Abcd1234" was initialised and "abcd1234" was refused as a wrong password
C4_Witness ==
  /\ VerifiedAgainstOwner
  /\ outcome.owner = <<65, 98, 99, 100, 49, 50, 51, 52>>
  /\ outcome.password = <<97, 98, 99, 100, 49, 50, 51, 52>>
  /\ outcome.message = "wrongPassword"
  /\ local.securityConfig # NoConfig

\* C5: when migrateFromOldVersion has succeeded, the legacy masterPassword is
\* absent from the store, every account password is classified as ciphertext
\* by isBase64, and the store holds a backup record with the legacy master
\* password and the accounts as they were before the migration
C5_MigrationResult ==
  (outcome.op = "migrate" /\ outcome.success)
    => /\ local.masterPassword = << >>
       /\ Len(local.accounts) = Len(outcome.read)
       /\ \A i \in 1..Len(local.accounts) : isBase64(local.accounts[i].password)
       /\ local.backup_v1_2_0.timestamp # NoTime
       /\ local.backup_v1_2_0.masterPassword = outcome.masterPassword
       /\ local.backup_v1_2_0.accounts = outcome.read

\* the strength policy: at least 8 code units, an uppercase letter, a
\* lowercase letter and a digit
MeetsPolicy(password) ==
  /\ Len(password) >= 8
  /\ \E i \in 1..Len(password) : password[i] \in 65..90
  /\ \E i \in 1..Len(password) : password[i] \in 97..122
  /\ \E i \in 1..Len(password) : password[i] \in 48..57

\* C12: an initializeMasterPassword whose passphrase violates the strength
\* policy does not go beyond the strength check: it returns a failure at
\* once, leaves chrome.storage.local as it is and sends no message, so that
\* the session authority is as before the call
C12_WeakPasswordNoSideEffects ==
  [][/\ \A c \in Contexts :
          ctx'[c].op = "initialize" => MeetsPolicy(ctx'[c].password)
     /\ (ops' = ops + 1 /\ outcome'.op = "initialize" /\ ~MeetsPolicy(outcome'.password))
          => (~outcome'.success /\ UNCHANGED <<local, sessionVars>>)]_vars

\* "Abcdefgh" was refused for its missing digit while a securityConfig and a
\* session existed
C12_Witness ==
  /\ outcome.op = "initialize"
  /\ outcome.password = <<65, 98, 99, 100, 101, 102, 103, 104>>
  /\ ~outcome.success
  /\ outcome.message = "number"
  /\ local.securityConfig # NoConfig
  /\ sessionKey # NoKey

\* C13: when a securityConfig exists, every verifyMasterPassword that fails,
\* be it for a wrong passphrase, for damaged verificationData or for a
\* damaged or undecodable salt, returns the wrong-password result
C13_UniformWrongPassword ==
  (outcome.op = "verify" /\ ~outcome.success) => outcome.message = "wrongPassword"

\* the local midnight that follows t
MidnightAfter(t) == (DateString(t) + 1) * MS_PER_DAY

\* the timer of a session of mode m created at t: 30 minutes after t, within
\* a minute of the midnight that follows t, or none
TimerOfMode(m, t, a) ==
  CASE m = "default" -> a = t + SESSION_DURATION
    [] m = "today" -> /\ a # NoAlarm
                      /\ a > MidnightAfter(t) - MS_PER_MINUTE
                      /\ a < MidnightAfter(t) + MS_PER_MINUTE
    [] m = "browser" -> a = NoAlarm

\* the key that the stored salt gives for a passphrase
CurrentKeyOf(password) ==
  SecurityManagerDeriveKey(password, base64ToArrayBuffer(local.securityConfig.salt).val)

\* C15: once verifyMasterPassword(p, mode) has returned success, the
\* in-memory key, which getSessionKey answers with, is the base64 form of the
\* key derived from p and the stored salt, the in-memory mode and the mirror
\* record that key under the mode of the call, and the alarm is the one of
\* that mode: 30 minutes after the call, within a minute of the following
\* midnight, or none
C15_VerifiedSessionInstalled ==
  (outcome.op = "verify" /\ outcome.success)
    => /\ sessionKey = arrayBufferToBase64(CurrentKeyOf(outcome.password))
       /\ sessionMode = outcome.mode
       /\ mirror = [sessionKey |-> sessionKey, sessionMode |-> outcome.mode,
                    sessionCreatedAt |-> now]
       /\ TimerOfMode(outcome.mode, now, alarm)

\* "Abcd1234" was verified for 'browser' after a verification for 'today'
\* at 23:59:59 had created an alarm
C15_Witness ==
  /\ outcome.op = "verify"
  /\ outcome.success
  /\ outcome.mode = "browser"
  /\ ops = 2
  /\ now = END_OF_DAY_OFFSET
  /\ alarm = NoAlarm
  /\ mirror.sessionMode = "browser"
  /\ sessionKey = arrayBufferToBase64(CurrentKeyOf(<<65, 98, 99, 100, 49, 50, 51, 52>>))

\* base64 text: a multiple of four characters, base64 digits followed by at
\* most two "=", that decodes to 28 bytes or more
ClassifiesAsCiphertext(str) ==
  /\ str # << >>
  /\ Len(str) % 4 = 0
  /\ \E pad \in 0..2 :
       /\ Len(str) > pad
       /\ \A i \in 1..Len(str) :
            IF i <= Len(str) - pad
            THEN \/ str[i] \in 65..90
                 \/ str[i] \in 97..122
                 \/ str[i] \in 48..57
                 \/ str[i] \in {43, 47}
            ELSE str[i] = PadChar
  /\ Atob(str).ok
  /\ Len(Atob(str).val) >= MIN_DECODED_LENGTH

\* C19: every accounts[].password of chrome.storage.local is a base64 blob of
\* the codec, whichever of the account forms wrote it and also when no key
\* was available or the encryption failed
C19_AccountsAlwaysCiphertext ==
  \A i \in 1..Len(local.accounts) : ClassifiesAsCiphertext(local.accounts[i].password)

\* C16: exportData produces a document only if the password of every
\* stored account classifies as ciphertext, and none (the refusal message, no
\* accounts written out) as soon as one password does not; a document that
\* is produced carries the stored accounts
C16_ExportOnlyCiphertext ==
  outcome.op = "export"
    => /\ outcome.success =>
            /\ \A i \in 1..Len(local.accounts) :
                 ClassifiesAsCiphertext(local.accounts[i].password)
            /\ outcome.read = local.accounts
       /\ (\E i \in 1..Len(local.accounts) :
              ~ClassifiesAsCiphertext(local.accounts[i].password))
            => /\ ~outcome.success
               /\ outcome.read = << >>
               /\ outcome.message \in {"notEncrypted", "cancelled"}

\* an export was refused for a collection whose first password is a blob
\* and whose second is plaintext
C16_Witness ==
  /\ outcome.op = "export"
  /\ ~outcome.success
  /\ outcome.message = "notEncrypted"
  /\ Len(local.accounts) = 2
  /\ ClassifiesAsCiphertext(local.accounts[1].password)
  /\ local.accounts[2].password = <<104, 117, 110, 116, 101, 114, 50>>

\* a getSessionKey handler is in flight in slot s
GetInFlight(s) == handlers[s].action = "get"

\* C17: every getSessionKey request receives exactly one response, whatever
\* the memory and the mirror hold and also without the store: the request is
\* answered in the step that receives it or it starts a handler; a handler
\* in flight sends nothing until the step that ends it, which sends the
\* response; a response is sent by no other step; and every handler in
\* flight eventually ends
C17_GetSessionKeyAnswered ==
  /\ [][/\ \A s \in Slots :
            /\ (GetInFlight(s) /\ ~GetInFlight(s)') => lastReply'.action = "get"
            /\ (GetInFlight(s) /\ GetInFlight(s)') => lastReply'.action # "get"
            /\ (~GetInFlight(s) /\ GetInFlight(s)')
                 => (requests' = requests + 1 /\ lastReply'.action # "get")
        /\ (lastReply'.action = "get" /\ \A s \in Slots : ~GetInFlight(s))
             => (requests' = requests + 1 /\ \A s \in Slots : ~GetInFlight(s)')]_vars
  /\ \A s \in Slots : GetInFlight(s) ~> (~GetInFlight(s) /\ lastReply.action = "get")

\* a getSessionKey after a restart found the mirror expired, removed it and
\* answered with the failure; the alarm of the session is still pending
C17_Witness ==
  /\ lastReply = Reply("get", FALSE, NoKey)
  /\ storeOK
  /\ mirror = EmptyMirror
  /\ alarm # NoAlarm
  /\ sessionKey = NoKey
  /\ \A s \in Slots : ~GetInFlight(s)

\* C18: a migrateFromOldVersion whose precondition fails is a no-op error:
\* when the legacy masterPassword is absent, or differs from the old
\* passphrase supplied, the call returns the failure of that case and from
\* its start to its return chrome.storage.local (accounts, securityConfig,
\* masterPassword, backup) and the session are unchanged
C18_MigrateRefusedIsNoOp ==
  [][\A c \in Contexts :
       /\ (ctx[c].op = "none" /\ ctx'[c].op = "migrate")
            => UNCHANGED <<local, sessionVars>>
       /\ (/\ ctx[c].op = "migrate"
           /\ ctx[c].pc = "migrate_check"
           /\ ctx'[c] # ctx[c]
           /\ \/ local.masterPassword = << >>
              \/ local.masterPassword # ctx[c].oldPassword)
            => /\ ctx'[c].op = "none"
               /\ ~outcome'.success
               /\ outcome'.message = IF local.masterPassword = << >> THEN "noLegacyData"
                                     ELSE "wrongOldPassword"
               /\ UNCHANGED <<local, sessionVars>>]_vars

\* a second migrateFromOldVersion, after the one that re-encrypted the
\* accounts and removed masterPassword, was refused
C18_Witness ==
  /\ outcome.op = "migrate"
  /\ ~outcome.success
  /\ outcome.message = "noLegacyData"
  /\ local.masterPassword = << >>
  /\ local.securityConfig # NoConfig
  /\ Len(local.accounts) = MaxAccounts
  /\ ops = 2

\* C20: once a setSessionKey(k, 'browser') that no other handler overlapped
\* has completed and mirrored the session, no alarm is pending, whatever
\* alarm an earlier session had created, and every getSessionKey is answered
\* with k, at any later time and also after a restart of the service worker,
\* until a clearSession, a setSessionKey or the close of the browser
C20_BrowserModeNoTimer ==
  (sess # NoSess /\ sess.mode = "browser")
    => /\ alarm = NoAlarm
       /\ ~AlarmDue
       /\ lastReply.action = "get"
            => (lastReply.success /\ lastReply.keyData = sess.key)

\* the third request, a getSessionKey more than 30 minutes after a
\* setSessionKey(k, 'browser') and after a restart, was answered with k from
\* the mirror
C20_Witness ==
  /\ sess # NoSess
  /\ sess.mode = "browser"
  /\ sess.restarted
  /\ requests = 3
  /\ now > sess.t + SESSION_DURATION
  /\ lastReply = Reply("get", TRUE, sess.key)
  /\ sessionKey = sess.key
  /\ alarm = NoAlarm

\* C21: a getSessionKey that found no key in memory and read a mirrored
\* session: when the recomputed rule expires it, the handler removes key,
\* mode and creation time from the mirror, leaves the memory without a key
\* and answers with the failure; when the rule does not expire it, the
\* handler leaves the mirror as it is and answers with the mirrored key
C21_ExpiredMirrorPurged ==
  [][\A s \in Slots :
       LET h == handlers[s]
           expired == RuleExpired(ModeOrDefault(h.data.sessionMode),
                                  CreatedAtOrZero(h.data.sessionCreatedAt), now)
       IN  /\ (h.pc = "get_check" /\ handlers'[s].pc # "get_check"
                /\ h.data.sessionKey # NoKey /\ expired)
                => /\ handlers'[s].pc = "get_purge"
                   /\ sessionKey = NoKey /\ sessionKey' = NoKey
                   /\ lastReply'.action # "get"
           /\ (h.pc = "get_check" /\ handlers'[s].pc # "get_check"
                /\ h.data.sessionKey # NoKey /\ ~expired)
                => /\ mirror' = mirror
                   /\ handlers'[s].pc = "idle"
                   /\ lastReply' = Reply("get", TRUE, h.data.sessionKey)
           /\ (h.pc = "get_purge" /\ handlers'[s].pc # "get_purge")
                => /\ mirror' = EmptyMirror
                   /\ sessionKey = NoKey /\ sessionKey' = NoKey
                   /\ handlers'[s].pc = "idle"
                   /\ lastReply' = Reply("get", FALSE, NoKey)]_vars

\* a session of mode 'today' was found in the mirror on the next day, after
\* a restart and before its alarm, and the getSessionKey removed it
C21_Witness ==
  /\ sess # NoSess
  /\ sess.mode = "today"
  /\ sess.restarted
  /\ DateString(now) > DateString(sess.createdAt)
  /\ lastReply = Reply("get", FALSE, NoKey)
  /\ mirror = EmptyMirror
  /\ sessionKey = NoKey
  /\ alarm # NoAlarm

\* C22: in every state without a handler in flight, in a browser that has
\* chrome.storage.session, an in-memory key is mirrored: the mirror holds the
\* same key and the same mode
C22_MemoryKeyMirrored ==
  (Quiescent /\ storeOK /\ sessionKey # NoKey)
    => (mirror.sessionKey = sessionKey /\ mirror.sessionMode = sessionMode)

\* what a getSessionKey received in this state answers after a restart:
\* the mirrored key unless the recomputed rule expires it
AnswerAfterRestart ==
  IF mirror.sessionKey # NoKey
     /\ ~RuleExpired(ModeOrDefault(mirror.sessionMode),
                     CreatedAtOrZero(mirror.sessionCreatedAt), now)
  THEN mirror.sessionKey
  ELSE NoKey

\* what a getSessionKey received in this state answers without a restart
AnswerWithoutRestart == IF sessionKey # NoKey THEN sessionKey ELSE AnswerAfterRestart

\* C23: a restart is transparent: in every state in which a getSessionKey
\* can be received after a setSessionKey that ran alone, the answer is the
\* same key, or the same absence of a key, whether the service worker
\* restarts before the request or not
C23_RestartTransparent ==
  (Quiescent /\ ~AlarmDue /\ storeOK /\ sess # NoSess /\ ~sess.restarted)
    => AnswerWithoutRestart = AnswerAfterRestart

\* C24: after a successful migration, an account whose stored password the
\* legacy decryption under the old master password rejected holds the
\* password it held before the migration
C24_FailedDecryptionCarriedThrough ==
  (outcome.op = "migrate" /\ outcome.success)
    => \A i \in 1..Len(outcome.read) :
         LET stored == outcome.read[i].password
         IN  (stored # << >>
              /\ ~CryptoUtilsDecrypt(stored, JsString(outcome.oldPassword)).ok)
               => (i <= Len(local.accounts) /\ local.accounts[i].password = stored)

\* C25: when migrateFromOldVersion returns a failure, the accounts, the
\* securityConfig and the session are as before the call; stated for the
\* first call of a behaviour, before which the store holds no securityConfig
\* and the background no session
C25_FailedMigrationRestores ==
  (outcome.op = "migrate" /\ ~outcome.success /\ ops = 1)
    => /\ local.accounts = outcome.read
       /\ local.securityConfig = NoConfig
       /\ sessionKey = NoKey
       /\ mirror = EmptyMirror
       /\ alarm = NoAlarm

\* the secret that the i-th account of a version 1 store holds encrypted
\* under the legacy master password
LegacySecret(i) == <<112, 119, 48 + i>>

\* C26: once a migration has succeeded, whatever attempts came before it,
\* the password of every account that held a legacy blob is one layer of
\* encryption: it decrypts, under the key of the new passphrase and the
\* stored salt, to the secret itself
C26_SingleLayerAfterMigration ==
  (outcome.op = "migrate" /\ outcome.success)
    => \A i \in 1..Len(local.accounts) :
         i % 3 = 1 =>
           SecurityManagerDecrypt(local.accounts[i].password,
                                  JsKey(CurrentKeyOf(outcome.password)))
             = Returned(LegacySecret(i))

\* C27: when the migrations that two contexts started have both finished,
\* the legacy masterPassword is absent and every stored account password
\* decrypts under the key derived from the passphrase that wrote the stored
\* securityConfig and from its salt
C27_ConcurrentMigrationSafe ==
  (/\ \A c \in Contexts : ctx[c].op = "none"
   /\ ops = 2
   /\ owner # << >>
   /\ local.accounts # << >>)
    => /\ local.masterPassword = << >>
       /\ \A i \in 1..Len(local.accounts) :
            SecurityManagerDecrypt(local.accounts[i].password,
                                   JsKey(CurrentKeyOf(owner))).ok

\* C28: after a successful migration followed by a successful verify, the
\* foreground read path (the session key imported from getSessionKey, then
\* decryptPassword) returns, for every account whose legacy secret the
\* migration decrypted, the original plaintext
C28_MigratedSecretsReadable ==
  (/\ outcome.op = "verify" /\ outcome.success
   /\ ops = 2
   /\ local.masterPassword = << >>
   /\ local.accounts # << >>)
    => \A i \in 1..Len(local.accounts) :
         i % 3 = 1 =>
           decryptPassword(local.accounts[i].password, ImportedSessionKey)
             = Returned(LegacySecret(i))

\* C29: once a securityConfig is persisted, no step changes its salt, its
\* iteration count or its verification marker, also when two foreground
\* contexts run the first-time setup at once
C29_SecurityConfigImmutable ==
  [][local.securityConfig # NoConfig
       => /\ local.securityConfig'.salt = local.securityConfig.salt
          /\ local.securityConfig'.iterations = local.securityConfig.iterations
          /\ local.securityConfig'.verificationData
               = local.securityConfig.verificationData]_vars

\* C30: under every interleaving of the handlers, when no handler is in
\* flight, a Fixed-mode key that getSessionKey can return from memory or
\* restore from the mirror has an expiry alarm pending
C30_FixedKeyHasAlarm ==
  (/\ Quiescent
   /\ \/ sessionKey # NoKey /\ sessionMode = "default"
      \/ mirror.sessionKey # NoKey /\ ModeOrDefault(mirror.sessionMode) = "default")
    => alarm # NoAlarm

\* C14: a verifyMasterPassword that fails returns the not-initialized
\* outcome when no securityConfig exists and the wrong-password outcome
\* otherwise, and from its call to its return no message is sent: the
\* in-memory key and mode, the mirror and the alarm stay as they were
C14_FailedVerifyKeepsSession ==
  [][\A c \in Contexts :
       /\ (ctx[c].op = "none" /\ ctx'[c].op = "verify") => UNCHANGED sessionVars
       /\ (ctx[c].op = "verify" /\ ctx'[c].op = "none" /\ ~outcome'.success)
            => /\ outcome'.message = IF ctx[c].config = NoConfig THEN "notInitialized"
                                     ELSE "wrongPassword"
               /\ UNCHANGED sessionVars]_vars

\* "abcd1234" was refused as a wrong password while the session of
\* "Abcd1234" was active
C14_Witness ==
  /\ outcome.op = "verify"
  /\ ~outcome.success
  /\ outcome.message = "wrongPassword"
  /\ outcome.password = <<97, 98, 99, 100, 49, 50, 51, 52>>
  /\ sessionKey # NoKey
  /\ mirror.sessionKey = sessionKey
  /\ alarm # NoAlarm

\* every string that a record of chrome.storage.local holds
StoredStrings ==
  {local.masterPassword, local.securityConfig.salt, local.securityConfig.verificationData,
   local.backup_v1_2_0.masterPassword}
  \cup {local.accounts[i].password : i \in 1..Len(local.accounts)}
  \cup {local.backup_v1_2_0.accounts[i].password :
          i \in 1..Len(local.backup_v1_2_0.accounts)}

\* the key that deriveKey gives for the current passphrase and the stored salt
CurrentKey ==
  SecurityManagerDeriveKey(owner, base64ToArrayBuffer(local.securityConfig.salt).val)

\* C11: whenever a securityConfig has been initialised, the legacy
\* masterPassword field is absent and no SecurityManager call is in progress,
\* no record of chrome.storage.local holds the current passphrase or the key
\* derived from it, the backup record included
C11_NoKeyMaterialInLocal ==
  (owner # << >> /\ local.masterPassword = << >> /\ \A c \in Contexts : ctx[c].op = "none")
    => /\ owner \notin StoredStrings
       /\ CurrentKey \notin StoredStrings
       /\ arrayBufferToBase64(CurrentKey) \notin StoredStrings

C7_DifferentKeyFails ==
  (codec.stage = "decrypted" /\ codec.other # codec.key) => ~codec.plainOther.ok

\* C8: for every plaintext s and key k, the blob of either layout has a length
\* that is a multiple of 4, matches the base64 alphabet with at most two
\* padding characters, decodes to at least 28 bytes, and isBase64 accepts it
C8_EncryptIsCiphertext ==
  codec.stage \in {"encrypted", "decrypted"}
    => /\ Len(codec.blob) % 4 = 0
       /\ MatchesBase64Regex(codec.blob)
       /\ Atob(codec.blob).ok
       /\ Len(Atob(codec.blob).val) >= 28
       /\ isBase64(codec.blob)

\* the empty string under SecurityManager.encrypt: a blob of exactly 28 bytes
C8_Witness ==
  /\ codec.stage = "encrypted"
  /\ codec.layout = "SecurityManager"
  /\ codec.s = << >>
  /\ Len(Atob(codec.blob).val) = 28

====
